---- MODULE Spec2Model ----
(***************************************************************************)
(* Web-Novel-Downloader: the chapter download orchestration of            *)
(* NovelDownloader (src/src/book_downloader/core.py) and the chapter-list  *)
(* pagination walk, as state machines.                                     *)
(*                                                                         *)
(* Strings that the code inspects character by character (chapter titles)  *)
(* are sequences of one-character strings.  A chapter's URL is its         *)
(* position in the chapter list; a page of a chapter is its position in    *)
(* the list get_chapter_pagination_links returned.                         *)
(***************************************************************************)
EXTENDS Naturals, Integers, Sequences, FiniteSets, TLC

\* ------------------------------------------------------------------ bounds
MaxChapters == 2        \* longest chapter list handed to download_novel
MaxConcurrency == 2     \* largest concurrency value tried
MaxPages == 2           \* most pages get_chapter_pagination_links returns
MaxListPages == 2       \* chapter-list pages of the modelled site
ChaptersPerPage == 2    \* chapter links on each chapter-list page
MaxChapterPages == 3    \* pages of the chapter get_chapter_pagination_links looks at
MaxElements == 2        \* most elements the chapter pagination XPath matches
MaxStored == 2          \* longest chapter list handed to save_chapter_metadata
MaxContent == 2         \* longest content handed to _process_content
MaxReplacements == 2    \* most string replacement pairs
MaxName == 2            \* longest file name handed to sanitize_filename
MaxFiles == 3           \* most chapter files handed to sort_chapters_by_metadata
MaxRecords == 2         \* most metadata records handed to sort_chapters_by_metadata
MaxIndex == 2           \* largest "index" of a metadata record
MaxCalls == 2           \* most calls of execute_task on one TaskExecutor

\* ------------------------------------------------------- download: state
VARIABLES
    chapters,                   \* the chapter list: a sequence of titles
    concurrency,                \* self.concurrency
    chapter_pagination_xpath,   \* TRUE when self.chapter_pagination_xpath is set
    semaphore,                  \* self.semaphore: [value, waiters, woken]
    pc,                         \* position of each download_chapter task
    pagination_urls,            \* local of each task: number of pages found
    page_num,                   \* local of each task: pages gone through
    all_content,                \* local of each task: the pages that gave content
    results,                    \* per task: what asyncio.gather collects
    files,                      \* the output directory: file name -> content
    hash_dir,                   \* "ok", or "raise" when the directory cannot be made
    trace,                      \* per task: what the task did (observation)
    main,                       \* position of download_novel
    stats,                      \* the statistics download_novel returned
    rerun,                      \* FALSE during the first call, TRUE during the second
    prev_written                \* the first call wrote every chapter

dlvars == <<chapters, concurrency, chapter_pagination_xpath, semaphore, pc,
            pagination_urls, page_num, all_content, results, files,
            hash_dir, trace, main, stats, rerun, prev_written>>

\* --------------------------------------------- chapter-list walk: state
VARIABLES
    list_links,                     \* the site: list page -> hrefs its pagination XPath matches
    chapter_list_pagination_xpath,  \* TRUE when self.chapter_list_pagination_xpath is set
    current_url,                    \* local of get_chapter_links; 0 is None
    visited_urls,                   \* local of get_chapter_links
    list_chapters,                  \* local all_chapters of get_chapter_links
    page_no,                        \* local page_num of get_chapter_links
    lpc,                            \* position of parse_chapters / get_chapter_links
    visit_log,                      \* the pages extracted so far and how the fetch went
    metadata,                       \* the stored record of the menu URL
    parse_result,                   \* what parse_chapters returned
    faults,                         \* some fetch of this call did not give the page
    first_call                      \* what an earlier call on the same site gave

listvars == <<list_links, chapter_list_pagination_xpath, current_url,
              visited_urls, list_chapters, page_no, lpc, visit_log, metadata,
              parse_result, faults, first_call>>

\* ------------------------------------- pages of one chapter: state
VARIABLES
    chapter_site,       \* the chapter: page -> hrefs its pagination XPath matches
    pages_xpath,        \* TRUE when self.chapter_pagination_xpath is set
    pages_pc,           \* position of get_chapter_pagination_links
    pages_fetch,        \* how the fetch of the chapter page went
    pages_result        \* the list get_chapter_pagination_links returned

pagevars == <<chapter_site, pages_xpath, pages_pc, pages_fetch, pages_result>>

\* ------------------------------------- Cloudflare wait: state
VARIABLES
    waited_time,        \* local of _handle_cloudflare_protection
    polls,              \* polls that ended in a sleep of check_interval
    cf_pc,              \* position: the wait loop, then the rest of the page download
    cf_page,            \* what tab.page_source gave on the last poll
    cf_blocked,         \* how the last poll classified the page
    cf_return,          \* what _handle_cloudflare_protection returned
    page_content,       \* what _download_chapter_page returned
    chapter_written     \* what download_chapter wrote for the one-page chapter

cfvars == <<waited_time, polls, cf_pc, cf_page, cf_blocked, cf_return,
            page_content, chapter_written>>

\* ------------------------------------- metadata store: state
VARIABLES
    store,              \* chapters/metadata: file name -> file content
    saved_args,         \* per menu URL: the arguments of the save that wrote its file last
    load_result         \* what the last load gave

mdvars == <<store, saved_args, load_result>>

\* ------------------------------------- content post-processing: state
VARIABLES
    pp_content,         \* the content argument of _process_content
    content_regex,      \* self.content_regex: a character class, or {} for None
    string_replacements,\* self.string_replacements: [old, new] pairs
    pp_result           \* what _process_content returned

ppvars == <<pp_content, content_regex, string_replacements, pp_result>>

\* ------------------------------------------- sanitize_filename: state
VARIABLES
    filename,           \* the argument of sanitize_filename
    sanitized,          \* sanitize_filename(filename)
    resanitized         \* sanitize_filename(sanitize_filename(filename))

sfvars == <<filename, sanitized, resanitized>>

\* ------------------------------------ sort_chapters_by_metadata: state
VARIABLES
    chapter_files,      \* the files to merge, by their stem
    metadata_chapters,  \* metadata["chapters"] of the metadata file
    reverse,            \* the reverse argument
    sorted_files        \* what sort_chapters_by_metadata returned

sortvars == <<chapter_files, metadata_chapters, reverse, sorted_files>>

\* ------------------------------------- download_novel, chapter source: state
VARIABLES
    force_parse,        \* the force_parse argument of download_novel
    chapter_xpath,      \* self.chapter_xpath, standing for all the selectors
    site_chapters,      \* what get_chapter_links finds on the site
    list_fetches,       \* calls of get_chapter_links so far
    saves,              \* calls of save_chapter_metadata so far
    novel_chapters,     \* the local variable chapters of download_novel
    novel_tasks,        \* the (url, title) pairs the tasks were created with
    novel_pc,           \* where download_novel is
    stored_before       \* the metadata file when download_novel was called

rsvars == <<force_parse, chapter_xpath, site_chapters, list_fetches, saves,
            novel_chapters, novel_tasks, novel_pc, stored_before>>

\* ------------------------------------------ progress of download_novel: state
VARIABLES
    gate_chapters,      \* how many chapters download_novel was given
    gate_existing,      \* the chapters whose file exists already
    gate_semaphore,     \* self.semaphore: free slots and the queue of waiters
    gate_pc,            \* where each chapter task is
    gate_fetches,       \* fetches the task has still to make
    gate_results,       \* what each task returned or raised
    gate_main           \* where download_novel is

gatevars == <<gate_chapters, gate_existing, gate_semaphore, gate_pc,
              gate_fetches, gate_results, gate_main>>

\* ---------------------------------------------- TaskExecutor: state
VARIABLES
    config_files,       \* what each configuration path holds
    task_metadata,      \* the metadata file chapters_<parsing.hash>.json
    config_cache,       \* ConfigManager._config_cache: the paths loaded
    calls,              \* calls of execute_task so far
    task_return         \* how the last call of execute_task ended

tevars == <<config_files, task_metadata, config_cache, calls, task_return>>

vars == <<dlvars, listvars, pagevars, cfvars, mdvars, ppvars, sfvars, sortvars, rsvars, gatevars, tevars>>

\* --------------------------------------------------- utils.sanitize_filename
InvalidChars == {"<", ">", ":", "\"", "/", "\\", "|", "?", "*"}

\* A sanitizer that overlooks the asterisk
sanitize_filename_keeping_star(name) ==
    [i \in DOMAIN name |->
        IF name[i] \in InvalidChars \ {"*"} THEN "_" ELSE name[i]]

\* utils.py:125-135: re.sub(r'[<>:"/\\|?*]', '_', filename)
sanitize_filename(name) ==
    [i \in DOMAIN name |->
        IF name[i] \in InvalidChars THEN "_" ELSE name[i]]

\* Titles the modelled site uses: "?" and "_" differ but sanitize alike.
Titles == {<<"a">>, <<"?">>, <<"_">>}

FileNames == {sanitize_filename(t) : t \in Titles}

NoFile == [present |-> FALSE]

NoStats == [returned |-> FALSE]

Tasks == DOMAIN chapters

\* core.py:575-582: the output path of a chapter, within the source's directory
chapter_file(t) == sanitize_filename(chapters[t])

\* The existence check made on the unsanitized title
chapter_file_exists_unsanitized(t) ==
    chapters[t] \in DOMAIN files /\ files[chapters[t]].present

\* core.py:588
chapter_file_exists(t) == files[chapter_file(t)].present

NoTrace == [existed |-> FALSE, opened_tab |-> FALSE,
            acquires |-> 0, releases |-> 0, writes |-> 0, failure |-> FALSE]

\* ---------------------------------------------------------- the semaphore
\* A gate that admits one task more than its capacity
semaphore_locked_late == semaphore.value < 0

\* asyncio.Semaphore._wake_up_next: the first waiter whose future is not done
\* is handed the slot (the counter goes down for it, its future is set); it
\* stays in the queue until it resumes
Semaphore_wake_up_next(sem) ==
    LET asleep == {i \in DOMAIN sem.waiters : sem.waiters[i] \notin sem.woken} IN
    IF asleep = {} THEN sem
    ELSE LET i == CHOOSE i \in asleep : \A j \in asleep : i <= j
         IN [sem EXCEPT !.value = @ - 1, !.woken = @ \cup {sem.waiters[i]}]

\* asyncio.Semaphore.release (Python 3.11): the counter goes up, then the
\* next waiter is woken; with a waiter asleep the counter is where it was
Semaphore_release(sem) ==
    Semaphore_wake_up_next([sem EXCEPT !.value = @ + 1])

\* asyncio.Semaphore.acquire after `await fut`: the woken waiter t leaves the
\* queue with the slot it was handed, the counter is not touched; a counter
\* above zero wakes the next waiter
Semaphore_resume(sem, t) ==
    LET left == [value |-> sem.value,
                 waiters |-> Tail(sem.waiters),
                 woken |-> sem.woken \ {t}]
    IN IF left.value > 0 THEN Semaphore_wake_up_next(left) ELSE left

\* asyncio.Semaphore.locked(): no free slot, or somebody is in the queue
\* (asleep or woken and not yet resumed)
semaphore_locked == semaphore.value = 0 \/ semaphore.waiters # <<>>

\* A release that is skipped when the body raised
semaphore_aexit_unless_raised(exc) ==
    IF exc THEN semaphore ELSE Semaphore_release(semaphore)

\* asyncio.Semaphore.__aexit__: the slot is given back whatever ended the body
semaphore_aexit(exc) == Semaphore_release(semaphore)

\* Tasks past "acquire" and before "release"
Holding == {t \in Tasks : pc[t] \in {"paginate", "download"}}

\* The event loop runs the first step of every task gather created before it
\* resumes a suspended one (core.py:935); a fetch that returns has suspended
\* (core.py:505, 724).
all_started == \A u \in Tasks : pc[u] # "pending"

\* Task t is the last one the event loop started: it may still be in its
\* first step. self.browser.new_tab() that raises without suspending
\* (core.py:499, 714; self.browser is None before start_browser) ends the
\* task in that step, before the next task starts.
in_first_step(t) == \A u \in Tasks : u > t => pc[u] = "pending"

\* ------------------------------------------------------------ Init
DownloadInit ==
    /\ chapters \in UNION {[1..n -> Titles] : n \in 0..MaxChapters}
    /\ concurrency \in 1..MaxConcurrency
    /\ chapter_pagination_xpath \in BOOLEAN
    /\ semaphore = [value |-> concurrency, waiters |-> <<>>, woken |-> {}]
    /\ pc = [t \in DOMAIN chapters |-> "pending"]
    /\ pagination_urls = [t \in DOMAIN chapters |-> 0]
    /\ page_num = [t \in DOMAIN chapters |-> 0]
    /\ all_content = [t \in DOMAIN chapters |-> <<>>]
    /\ results = [t \in DOMAIN chapters |-> "none"]
    /\ files = [f \in FileNames |-> NoFile]
    /\ hash_dir = "ok"
    /\ trace = [t \in DOMAIN chapters |-> NoTrace]
    /\ main = "start"
    /\ stats = NoStats
    /\ rerun = FALSE
    /\ prev_written = FALSE

\* The concurrency values a caller may hand to the constructor, valid or not
ConcurrencyArgs == {-1, 0, 1}

\* core.py:47-57: NovelDownloader.__init__ with any concurrency argument.
\* asyncio.Semaphore(concurrency) raises ValueError for a negative value and
\* accepts 0; nothing else looks at the value.
ConstructInit ==
    /\ chapters \in UNION {[1..n -> Titles] : n \in 0..MaxChapters}
    /\ concurrency \in ConcurrencyArgs
    /\ chapter_pagination_xpath \in BOOLEAN
    /\ semaphore = [value |-> IF concurrency < 0 THEN 0 ELSE concurrency,
                    waiters |-> <<>>, woken |-> {}]
    /\ pc = [t \in DOMAIN chapters |-> "pending"]
    /\ pagination_urls = [t \in DOMAIN chapters |-> 0]
    /\ page_num = [t \in DOMAIN chapters |-> 0]
    /\ all_content = [t \in DOMAIN chapters |-> <<>>]
    /\ results = [t \in DOMAIN chapters |-> "none"]
    /\ files = [f \in FileNames |-> NoFile]
    /\ hash_dir = "ok"
    /\ trace = [t \in DOMAIN chapters |-> NoTrace]
    /\ main = IF concurrency < 0 THEN "init_raised" ELSE "start"
    /\ stats = NoStats
    /\ rerun = FALSE
    /\ prev_written = FALSE

\* ------------------------------------------------ download_chapter, step 1
\* core.py:581: hash_dir.mkdir(exist_ok=True) raises only while the source's
\* directory cannot be made; it cannot once a chapter file is inside it. The
\* tasks call it one after the other without suspending in between
\* (all_started), so one call of download_novel sees one outcome.
mkdir_outcomes ==
    IF \E f \in FileNames : files[f].present THEN {"ok"} ELSE {"ok", "raise"}

\* core.py:592-597: the task is inside "async with self.semaphore"; without a
\* chapter pagination XPath get_chapter_pagination_links returns [chapter_url]
\* at once (core.py:496-497), with one it opens a tab first.
enter_gate(t) ==
    /\ pc' = [pc EXCEPT ![t] =
                IF chapter_pagination_xpath THEN "paginate" ELSE "download"]
    /\ pagination_urls' = [pagination_urls EXCEPT ![t] =
                IF chapter_pagination_xpath THEN 0 ELSE 1]

\* core.py:561-592: from the call to the first suspension point. gather starts
\* the tasks in list order (core.py:923-935).
download_chapter(t) ==
    /\ main = "gather"
    /\ pc[t] = "pending"
    /\ \A u \in Tasks : u < t => pc[u] # "pending"
    /\ LET mk == hash_dir IN
        \/ /\ mk = "raise"
           /\ pc' = [pc EXCEPT ![t] = "done"]
           /\ results' = [results EXCEPT ![t] = "exc"]
           /\ trace' = [trace EXCEPT ![t].failure = TRUE]
           /\ UNCHANGED <<semaphore, pagination_urls>>
        \/ /\ mk = "ok"
           /\ chapter_file_exists(t)
           /\ pc' = [pc EXCEPT ![t] = "done"]
           /\ results' = [results EXCEPT ![t] = "True"]
           /\ trace' = [trace EXCEPT ![t].existed =
                                        files[chapter_file(t)].present]
           /\ UNCHANGED <<semaphore, pagination_urls>>
        \/ /\ mk = "ok"
           /\ ~chapter_file_exists(t)
           /\ semaphore_locked
           /\ pc' = [pc EXCEPT ![t] = "waiting"]
           /\ semaphore' = [semaphore EXCEPT !.waiters = Append(@, t)]
           /\ trace' = [trace EXCEPT ![t].existed =
                                        files[chapter_file(t)].present]
           /\ UNCHANGED <<results, pagination_urls>>
        \/ /\ mk = "ok"
           /\ ~chapter_file_exists(t)
           /\ ~semaphore_locked
           /\ semaphore' = [semaphore EXCEPT !.value = @ - 1]
           /\ enter_gate(t)
           /\ trace' = [trace EXCEPT ![t].existed =
                                        files[chapter_file(t)].present,
                                     ![t].acquires = @ + 1]
           /\ UNCHANGED results
    /\ UNCHANGED <<chapters, concurrency, chapter_pagination_xpath, page_num,
                   all_content, files, hash_dir, main, stats, rerun, prev_written>>

\* asyncio.Semaphore.acquire for a task that had to queue (core.py:592): the
\* waiter a release woke resumes; the woken waiters resume in queue order
semaphore_acquire(t) ==
    /\ main = "gather"
    /\ pc[t] = "waiting"
    /\ all_started
    /\ semaphore.waiters # <<>>
    /\ Head(semaphore.waiters) = t
    /\ t \in semaphore.woken
    /\ semaphore' = Semaphore_resume(semaphore, t)
    /\ enter_gate(t)
    /\ trace' = [trace EXCEPT ![t].acquires = @ + 1]
    /\ UNCHANGED <<chapters, concurrency, chapter_pagination_xpath, page_num,
                   all_content, results, files, hash_dir, main, stats, rerun, prev_written>>

\* An exit that puts a failed chapter back in line
task_exit_retrying(t, result, exc) ==
    /\ pc' = [pc EXCEPT ![t] = IF result = "False" THEN "pending" ELSE "done"]
    /\ results' = [results EXCEPT ![t] = IF result = "False" THEN "none" ELSE result]
    /\ semaphore' = semaphore_aexit(exc)
    /\ pagination_urls' = [pagination_urls EXCEPT ![t] = 0]
    /\ page_num' = [page_num EXCEPT ![t] = 0]
    /\ all_content' = [all_content EXCEPT ![t] = <<>>]

\* core.py:617, 633, 635-638 and the end of "async with": the task returns
\* `result`; its locals are gone
task_exit(t, result, exc) ==
    /\ pc' = [pc EXCEPT ![t] = "done"]
    /\ results' = [results EXCEPT ![t] = result]
    /\ semaphore' = semaphore_aexit(exc)
    /\ pagination_urls' = [pagination_urls EXCEPT ![t] = 0]
    /\ page_num' = [page_num EXCEPT ![t] = 0]
    /\ all_content' = [all_content EXCEPT ![t] = <<>>]

\* core.py:597 with core.py:486-559: the pagination lookup of the chapter. It
\* opens one tab; new_tab raising (core.py:499, outside the try) reaches the
\* handler of download_chapter; a failed lookup returns [chapter_url].
get_chapter_pagination_links(t) ==
    /\ main = "gather"
    /\ pc[t] = "paginate"
    /\ \/ /\ all_started \/ in_first_step(t)    \* new_tab raised, core.py:499
          /\ task_exit(t, "False", TRUE)
          /\ trace' = [trace EXCEPT ![t].opened_tab = TRUE, ![t].failure = TRUE,
                                    ![t].releases = @ + 1]
       \/ \E n \in 1..MaxPages :
          /\ all_started
          /\ pagination_urls' = [pagination_urls EXCEPT ![t] = n]
          /\ pc' = [pc EXCEPT ![t] = "download"]
          /\ trace' = [trace EXCEPT ![t].opened_tab = TRUE]
          /\ UNCHANGED <<results, semaphore, page_num, all_content>>
    /\ UNCHANGED <<chapters, concurrency, chapter_pagination_xpath,
                   files, hash_dir, main, stats, rerun, prev_written>>

\* core.py:626-630: what open(chapter_file, 'w') and the four writes leave.
\* "ok": the whole file; "open": open() raised, nothing is touched; "write":
\* a write raised after open() created or truncated the file.
WriteOutcomes == {"ok", "open", "write"}

\* What a file holds: "all" pages of its chapter, only "some" of them, or a
\* text "cut" short by a failed write.
file_content(t, content, w) ==
    IF w = "write" THEN "cut"
    ELSE IF Len(content) = pagination_urls[t] THEN "all" ELSE "some"

\* A write that leaves a file alone once it exists
written_file_keeping_first(t, content, w) ==
    IF w = "open" \/ files[chapter_file(t)].present THEN files[chapter_file(t)]
    ELSE [present |-> TRUE, title |-> chapters[t],
          content |-> file_content(t, content, w)]

\* core.py:625-630: open(chapter_file, 'w') and the four writes
written_file(t, content, w) ==
    IF w = "open" THEN files[chapter_file(t)]
    ELSE [present |-> TRUE, title |-> chapters[t],
          content |-> file_content(t, content, w)]

\* core.py:614: the chapter fails when no page gave content
chapter_failed(content) == content = <<>>

\* core.py:606-638: one turn of the page loop, i.e. one _download_chapter_page
\* (core.py:698-812), and after the last page the rest of download_chapter.
PageOutcomes == {"ok", "none", "raise"}

download_chapter_page(t) ==
    /\ main = "gather"
    /\ pc[t] = "download"
    /\ LET i == page_num[t] + 1 IN
       \E page \in PageOutcomes :
        \/ /\ page = "raise"                      \* new_tab raised, core.py:714
           /\ all_started \/ in_first_step(t)
           /\ task_exit(t, "False", TRUE)
           /\ trace' = [trace EXCEPT ![t].opened_tab = TRUE, ![t].failure = TRUE,
                                     ![t].releases = @ + 1]
           /\ UNCHANGED files
        \/ /\ page # "raise"
           /\ all_started
           /\ LET content == IF page = "ok" THEN Append(all_content[t], i)
                                            ELSE all_content[t]
                  failed  == trace[t].failure \/ page = "none"
              IN
              \/ /\ i < pagination_urls[t]        \* more pages to go
                 /\ all_content' = [all_content EXCEPT ![t] = content]
                 /\ page_num' = [page_num EXCEPT ![t] = i]
                 /\ trace' = [trace EXCEPT ![t].opened_tab = TRUE,
                                           ![t].failure = failed]
                 /\ UNCHANGED <<pc, results, semaphore, files, pagination_urls>>
              \/ /\ i >= pagination_urls[t]
                 /\ chapter_failed(content)
                 /\ task_exit(t, "False", FALSE)
                 /\ trace' = [trace EXCEPT ![t].opened_tab = TRUE,
                                           ![t].failure = failed,
                                           ![t].releases = @ + 1]
                 /\ UNCHANGED files
              \/ /\ i >= pagination_urls[t]
                 /\ ~chapter_failed(content)
                 /\ \E w \in WriteOutcomes :
                     /\ files' = [files EXCEPT ![chapter_file(t)] =
                                     written_file(t, content, w)]
                     /\ task_exit(t, IF w = "ok" THEN "True" ELSE "False",
                                  w # "ok")
                     /\ trace' = [trace EXCEPT ![t].opened_tab = TRUE,
                                               ![t].failure = (failed \/ w # "ok"),
                                               ![t].writes = @ + 1,
                                               ![t].releases = @ + 1]
    /\ UNCHANGED <<chapters, concurrency, chapter_pagination_xpath,
                   hash_dir, main, stats, rerun, prev_written>>

\* ------------------------------------------------------------ download_novel
ZeroStats == [returned |-> TRUE, total |-> 0, downloaded |-> 0,
              skipped |-> 0, failed |-> 0]

\* A count that forgets the tasks that raised
count_results_without_exceptions(res) ==
    [returned |-> TRUE,
     total |-> Len(chapters),
     downloaded |-> Cardinality({t \in DOMAIN res : res[t] = "True"}),
     skipped |-> 0,
     failed |-> Cardinality({t \in DOMAIN res : res[t] = "False"})]

\* core.py:939-947
count_results(res) ==
    [returned |-> TRUE,
     total |-> Len(chapters),
     downloaded |-> Cardinality({t \in DOMAIN res : res[t] = "True"}),
     skipped |-> 0,
     failed |-> Cardinality({t \in DOMAIN res : res[t] = "exc"})
                + Cardinality({t \in DOMAIN res : res[t] \notin {"exc", "True"}})]

\* core.py:870-932: up to the creation of the tasks. An exception here (the
\* metadata store raising) reaches the outer handler, core.py:951-955; an
\* empty chapter list returns at core.py:896-898.
download_novel(exc) ==
    /\ main = "start"
    /\ \/ /\ exc
          /\ stats' = ZeroStats
          /\ main' = "returned"
          /\ UNCHANGED hash_dir
       \/ /\ ~exc
          /\ chapters = <<>>
          /\ stats' = ZeroStats
          /\ main' = "returned"
          /\ UNCHANGED hash_dir
       \/ /\ ~exc
          /\ chapters # <<>>
          /\ stats' = NoStats
          /\ main' = "gather"
          /\ hash_dir' \in mkdir_outcomes
    /\ UNCHANGED <<chapters, concurrency, chapter_pagination_xpath, semaphore,
                   pc, pagination_urls, page_num, all_content, results,
                   files, trace, rerun, prev_written>>

\* core.py:935-949: asyncio.gather has every result; count and return
gather_results ==
    /\ main = "gather"
    /\ \A t \in Tasks : pc[t] = "done"
    /\ stats' = count_results(results)
    /\ main' = "returned"
    /\ UNCHANGED <<chapters, concurrency, chapter_pagination_xpath, semaphore,
                   pc, pagination_urls, page_num, all_content, results,
                   files, hash_dir, trace, rerun, prev_written>>

\* the caller invokes download_novel a second time: same downloader, same
\* chapter list, same directory
download_again ==
    /\ main = "returned"
    /\ ~rerun
    /\ rerun' = TRUE
    /\ prev_written' = (/\ chapters # <<>>
                        /\ \A t \in Tasks : /\ results[t] = "True"
                                            /\ trace[t].writes = 1)
    /\ main' = "start"
    /\ stats' = NoStats
    /\ pc' = [t \in Tasks |-> "pending"]
    /\ results' = [t \in Tasks |-> "none"]
    /\ trace' = [t \in Tasks |-> NoTrace]
    /\ UNCHANGED <<chapters, concurrency, chapter_pagination_xpath, semaphore,
                   pagination_urls, page_num, all_content, files,
                   hash_dir>>

\* cli.py:160-282: replace_chapter_strings on the directory of the source,
\* between two downloads. Every chapter file is read; a file whose text
\* changes is rewritten in place (cli.py:264-265) and still holds its
\* chapter; when that write raises, open(chapter_file, 'w') has truncated
\* the file and the handler only prints (cli.py:271-273). `failed` are the
\* files whose write raised.
replace_chapter_strings ==
    /\ main = "returned"
    /\ \E failed \in SUBSET {f \in FileNames : files[f].present} :
        /\ failed # {}
        /\ files' = [f \in FileNames |->
                        IF f \in failed THEN [files[f] EXCEPT !.content = "cut"]
                        ELSE files[f]]
    /\ UNCHANGED <<chapters, concurrency, chapter_pagination_xpath, semaphore,
                   pc, pagination_urls, page_num, all_content, results,
                   hash_dir, trace, main, stats, rerun, prev_written>>

\* ======================================================= chapter-list walk
ListPages == 1..MaxListPages

\* The chapter list starts at the menu URL, page 1
menu_url == 1

\* Sequences over S without repetition
RECURSIVE InjSeqs(_)
InjSeqs(S) ==
    IF S = {} THEN {<<>>}
    ELSE {<<>>} \cup UNION {{<<x>> \o q : q \in InjSeqs(S \ {x})} : x \in S}

\* An extraction that yields the entries of a page last to first
page_chapters_reversed(p) ==
    [i \in 1..ChaptersPerPage |-> <<p, ChaptersPerPage + 1 - i>>]

\* core.py:371-398: the (url, title) entries of a list page, in document order
page_chapters(p) == [i \in 1..ChaptersPerPage |-> <<p, i>>]

NoMetadata == [saved |-> FALSE]

NoCall == [done |-> FALSE]

ListIdle ==
    /\ list_links = [p \in ListPages |-> <<>>]
    /\ chapter_list_pagination_xpath = FALSE
    /\ current_url = menu_url
    /\ visited_urls = {}
    /\ list_chapters = <<>>
    /\ page_no = 1
    /\ lpc = "idle"
    /\ visit_log = <<>>
    /\ metadata = NoMetadata
    /\ parse_result = <<>>
    /\ faults = FALSE
    /\ first_call = NoCall

\* core.py:285-288 after NovelDownloader.__init__, on any site
ListInit ==
    /\ list_links \in [ListPages -> InjSeqs(ListPages)]
    /\ chapter_list_pagination_xpath \in BOOLEAN
    /\ current_url = menu_url
    /\ visited_urls = {}
    /\ list_chapters = <<>>
    /\ page_no = 1
    /\ lpc = "extract"
    /\ visit_log = <<>>
    /\ metadata = NoMetadata
    /\ parse_result = <<>>
    /\ faults = FALSE
    /\ first_call = NoCall

DownloadIdle ==
    /\ chapters = <<>>
    /\ concurrency = 1
    /\ chapter_pagination_xpath = FALSE
    /\ semaphore = [value |-> 1, waiters |-> <<>>, woken |-> {}]
    /\ pc = <<>>
    /\ pagination_urls = <<>>
    /\ page_num = <<>>
    /\ all_content = <<>>
    /\ results = <<>>
    /\ files = [f \in FileNames |-> NoFile]
    /\ hash_dir = "ok"
    /\ trace = <<>>
    /\ main = "idle"
    /\ stats = NoStats
    /\ rerun = FALSE
    /\ prev_written = FALSE

\* A walk that never recognises a page it has been on
already_visited_never(url) == FALSE

\* core.py:296
already_visited(url) == url \in visited_urls

\* core.py:453-473: the first matched href that is not the current page; 0 is None
get_next_page_url(url) ==
    LET links == list_links[url]
        other == {i \in DOMAIN links : links[i] # url}
    IN IF other = {} THEN 0
       ELSE links[CHOOSE i \in other : \A j \in other : i <= j]

\* core.py:305-306: a page without chapters only prints a warning
no_chapters_found(all) == all

\* core.py:303-304: all_chapters.extend(page_chapters)
all_chapters_extend(all, page) == all \o page

\* What a fetch of a list page gives: "ok" the markup, "fail" nothing usable
\* (the extraction returns [] or None), "raise" new_tab raised (core.py:336,
\* 424: outside the try)
FetchOutcomes == {"ok", "fail", "raise"}

\* core.py:292-307, 319-321: top of the loop, the cycle guard, and
\* _extract_chapters_from_page (core.py:326-409) of the current page
extract_chapters_from_page ==
    /\ lpc = "extract"
    /\ \/ /\ already_visited(current_url)              \* core.py:296-298
          /\ lpc' = "returned"
          /\ UNCHANGED <<visited_urls, list_chapters, visit_log, faults>>
       \/ /\ ~already_visited(current_url)
          /\ visited_urls' = visited_urls \cup {current_url}
          /\ \E fetch \in FetchOutcomes :
              /\ visit_log' = Append(visit_log,
                                [url |-> current_url, ok |-> fetch = "ok"])
              /\ list_chapters' =
                    IF fetch = "ok"
                    THEN all_chapters_extend(list_chapters, page_chapters(current_url))
                    ELSE no_chapters_found(list_chapters)
              /\ faults' = (faults \/ fetch # "ok")
              /\ lpc' = IF fetch = "raise" THEN "raised"
                        ELSE IF chapter_list_pagination_xpath THEN "next"
                        ELSE "returned"
    /\ UNCHANGED <<list_links, chapter_list_pagination_xpath, current_url,
                   page_no, metadata, parse_result, first_call>>

\* core.py:310-318: _get_next_page_url (core.py:411-484) and the move to it
next_page ==
    /\ lpc = "next"
    /\ \E fetch \in FetchOutcomes :
        LET next_url == IF fetch = "ok" THEN get_next_page_url(current_url) ELSE 0
        IN \/ /\ fetch = "raise"
              /\ lpc' = "raised"
              /\ faults' = TRUE
              /\ UNCHANGED <<current_url, page_no>>
           \/ /\ fetch # "raise"
              /\ next_url # 0 /\ next_url # current_url
              /\ faults' = (faults \/ fetch # "ok")
              /\ current_url' = next_url
              /\ page_no' = page_no + 1
              /\ lpc' = "extract"
           \/ /\ fetch # "raise"
              /\ ~(next_url # 0 /\ next_url # current_url)
              /\ faults' = (faults \/ fetch # "ok")
              /\ lpc' = "returned"
              /\ UNCHANGED <<current_url, page_no>>
    /\ UNCHANGED <<list_links, chapter_list_pagination_xpath, visited_urls,
                   list_chapters, visit_log, metadata, parse_result, first_call>>

\* metadata.py:74-94: the record save_chapter_metadata writes
saved_metadata(url, chs) ==
    [saved |-> TRUE, menu_url |-> url,
     chapters |-> [i \in DOMAIN chs |-> [index |-> i, url |-> chs[i]]]]

\* core.py:826-854: parse_chapters once get_chapter_links returned or raised
parse_chapters ==
    /\ lpc \in {"returned", "raised"}
    /\ lpc' = "parsed"
    /\ IF lpc = "raised" \/ list_chapters = <<>>
       THEN /\ parse_result' = <<>>
            /\ UNCHANGED metadata
       ELSE /\ metadata' = saved_metadata(menu_url, list_chapters)
            /\ parse_result' = list_chapters
    /\ UNCHANGED <<list_links, chapter_list_pagination_xpath, current_url,
                   visited_urls, list_chapters, page_no, visit_log, faults,
                   first_call>>

\* core.py:814-828: parse_chapters called once more on the same site; the
\* locals of get_chapter_links start afresh (core.py:285-288)
parse_chapters_again ==
    /\ lpc = "parsed"
    /\ ~first_call.done
    /\ first_call' = [done |-> TRUE, chapters |-> list_chapters,
                      faults |-> faults]
    /\ current_url' = menu_url
    /\ visited_urls' = {}
    /\ list_chapters' = <<>>
    /\ page_no' = 1
    /\ lpc' = "extract"
    /\ visit_log' = <<>>
    /\ faults' = FALSE
    /\ UNCHANGED <<list_links, chapter_list_pagination_xpath, metadata,
                   parse_result>>

\* ====================================================== pages of one chapter
ChapterPages == 1..MaxChapterPages

\* The chapter starts at chapter_url, page 1
chapter_url == 1

\* An href is <<kind, page>>: "abs" the absolute URL of the page, "rel" a
\* relative reference that resolves to it, "empty" no href attribute
Hrefs == {<<"empty", 0>>} \cup ({"abs", "rel"} \X ChapterPages)

RECURSIVE SeqsUpTo(_, _)
\* Sequences over S of length at most n
SeqsUpTo(S, n) ==
    IF n = 0 THEN {<<>>}
    ELSE LET shorter == SeqsUpTo(S, n - 1)
         IN shorter \cup {Append(q, x) : q \in shorter, x \in S}

\* core.py:533: href != chapter_url compares the attribute text with the URL
href_is_url(href, url) == href[1] = "abs" /\ href[2] = url

\* core.py:535: urljoin(chapter_url, href)
urljoin(base, href) == href[2]

Range(q) == {q[i] : i \in DOMAIN q}

\* A collection that never recognises a URL it already holds
already_listed_never(url, urls) == FALSE

\* core.py:536: full_url not in pagination_urls
already_listed(url, urls) == url \in Range(urls)

RECURSIVE collect_pagination_urls(_, _, _)
\* core.py:527-546: the loop over the matched elements
collect_pagination_urls(url, elements, urls) ==
    IF elements = <<>> THEN urls
    ELSE LET href == Head(elements)
             full_url == urljoin(url, href)
         IN IF href[1] # "empty" /\ ~href_is_url(href, url)
               /\ ~already_listed(full_url, urls)
            THEN collect_pagination_urls(url, Tail(elements), Append(urls, full_url))
            ELSE collect_pagination_urls(url, Tail(elements), urls)

\* How the fetch of the chapter page goes: "ok" the markup, "short" short or
\* non-markup content (core.py:512-520), "error" go_to or the parse raised
\* (551-553), "new_tab" browser.new_tab() raised (499, outside the try)
PageFetches == {"ok", "short", "error", "new_tab"}

PagesIdle ==
    /\ chapter_site = [p \in ChapterPages |-> <<>>]
    /\ pages_xpath = FALSE
    /\ pages_pc = "idle"
    /\ pages_fetch = "none"
    /\ pages_result = <<>>

\* Any chapter: the first page carries up to MaxElements hrefs, each later
\* page at most one absolute link
PagesInit ==
    /\ chapter_site \in
          {[p \in ChapterPages |->
              IF p = chapter_url THEN first
              ELSE IF rest[p] = 0 THEN <<>> ELSE <<<<"abs", rest[p]>>>>] :
           first \in SeqsUpTo(Hrefs, MaxElements),
           rest \in [ChapterPages -> 0..MaxChapterPages]}
    /\ pages_xpath \in BOOLEAN
    /\ pages_pc = "call"
    /\ pages_fetch = "none"
    /\ pages_result = <<>>

\* core.py:486-559: get_chapter_pagination_links(chapter_url) as a whole
chapter_pagination_links ==
    /\ pages_pc = "call"
    /\ IF ~pages_xpath
       THEN /\ pages_result' = <<chapter_url>>          \* core.py:496-497
            /\ pages_pc' = "returned"
            /\ UNCHANGED pages_fetch
       ELSE \E fetch \in PageFetches :
            /\ pages_fetch' = fetch
            /\ pages_pc' = IF fetch = "new_tab" THEN "raised" ELSE "returned"
            /\ pages_result' =
                  IF fetch = "ok"
                  THEN collect_pagination_urls(chapter_url,
                           chapter_site[chapter_url], <<chapter_url>>)
                  ELSE IF fetch = "new_tab" THEN <<>>
                  ELSE <<chapter_url>>
    /\ UNCHANGED <<chapter_site, pages_xpath>>

\* ============================================================ Cloudflare wait
\* config.py:31
CLOUDFLARE_MAX_WAIT_TIME == 120

\* config.py:32
CLOUDFLARE_CHECK_INTERVAL == 3

\* core.py:237: the phrases the wait loop looks for in the title
HandlePhrases == {"Just a moment", "Checking your browser"}

\* core.py:148-153: protection_titles, looked for in the title as written
ProtectionTitles == HandlePhrases \cup {"Please wait"}

\* core.py:157-164: challenge_texts, looked for in the lower-cased text of
\* the whole page
ChallengeTexts == HandlePhrases \cup {"verify you are human"}

\* core.py:148-164: the phrases the pages of the model can carry
ChallengePhrases == ProtectionTitles \cup ChallengeTexts

\* A text holds no phrase, or one phrase written as in the list (exact) or
\* in another letter case
Texts == {[phrase |-> "none", exact |-> TRUE]}
         \cup [phrase : ChallengePhrases, exact : BOOLEAN]

\* What tab.page_source gives: a page with a title and a body text
CfPages == [title : Texts, body : Texts]

NoPage == [title |-> [phrase |-> "none", exact |-> TRUE],
           body |-> [phrase |-> "none", exact |-> TRUE]]

\* Stands for a read of tab.page_source that raised
ErrorPage == [title |-> [phrase |-> "error", exact |-> TRUE],
              body |-> [phrase |-> "error", exact |-> TRUE]]

\* core.py:237: title and ("..." in title or ...), a case-sensitive test
title_blocked(page) ==
    page.title.phrase \in HandlePhrases /\ page.title.exact

\* An error path that sleeps without counting the time
waited_after_error_unchanged(w) == w

\* core.py:265-267: the except path sleeps and counts check_interval
waited_after_error(w) == w + CLOUDFLARE_CHECK_INTERVAL

\* core.py:251-252: the blocked path sleeps and counts check_interval
waited_after_sleep(w) == w + CLOUDFLARE_CHECK_INTERVAL

CfIdle ==
    /\ waited_time = 0
    /\ polls = 0
    /\ cf_pc = "idle"
    /\ cf_page = NoPage
    /\ cf_blocked = FALSE
    /\ cf_return = "none"
    /\ page_content = "none"
    /\ chapter_written = "none"

\* core.py:221-223: entry of _handle_cloudflare_protection, called from
\* _download_chapter_page (core.py:727)
CfInit ==
    /\ waited_time = 0
    /\ polls = 0
    /\ cf_pc = "poll"
    /\ cf_page = NoPage
    /\ cf_blocked = FALSE
    /\ cf_return = "none"
    /\ page_content = "none"
    /\ chapter_written = "none"

\* core.py:225-267: one turn of the wait loop; the read of the page raises
\* (error) or gives a page
cloudflare_poll ==
    /\ cf_pc = "poll"
    /\ waited_time < CLOUDFLARE_MAX_WAIT_TIME
    /\ \/ /\ cf_page' = ErrorPage                          \* core.py:264-267
          /\ cf_blocked' = FALSE
          /\ waited_time' = waited_after_error(waited_time)
          /\ polls' = polls + 1
          /\ cf_pc' = "poll"
       \/ \E page \in CfPages :
          /\ cf_page' = page
          /\ cf_blocked' = title_blocked(page)
          /\ IF title_blocked(page)
             THEN /\ waited_time' = waited_after_sleep(waited_time)
                  /\ polls' = polls + 1
                  /\ cf_pc' = "poll"
             ELSE /\ cf_pc' = "after_wait"                 \* core.py:257-262
                  /\ UNCHANGED <<waited_time, polls>>
    /\ cf_return' = IF cf_pc' = "after_wait" THEN "None" ELSE cf_return
    /\ UNCHANGED <<page_content, chapter_written>>

\* core.py:225, 270-273: the loop ends on the budget; a message is printed
\* and the function returns None as on the clear path
cloudflare_timeout ==
    /\ cf_pc = "poll"
    /\ waited_time >= CLOUDFLARE_MAX_WAIT_TIME
    /\ cf_pc' = "after_timeout"
    /\ cf_return' = "None"
    /\ UNCHANGED <<waited_time, polls, cf_page, cf_blocked, page_content,
                   chapter_written>>

\* core.py:141-170: _detect_cloudflare_protection on a page: a protection
\* title in the title, case-sensitive (145-155), or a challenge text in the
\* lower-cased text of the whole page, title included (158-168)
is_challenge_page(page) ==
    /\ page # ErrorPage
    /\ \/ page.title.phrase \in ProtectionTitles /\ page.title.exact
       \/ page.title.phrase \in ChallengeTexts
       \/ page.body.phrase \in ChallengeTexts

\* core.py:729-800: the rest of _download_chapter_page. It reads
\* tab.page_source once more (729): the read raises or gives the page the
\* tab shows by then, which need not be the page of the last poll; the
\* content XPath matches elements of it or does not
download_chapter_page_after_wait ==
    /\ cf_pc \in {"after_wait", "after_timeout"}
    /\ \E page \in CfPages \cup {ErrorPage}, matches \in BOOLEAN :
        page_content' =
            IF page = ErrorPage \/ ~matches THEN "None"         \* core.py:732-789, 802
            ELSE IF is_challenge_page(page) THEN "challenge"
            ELSE "chapter"
    /\ cf_pc' = IF cf_pc = "after_wait" THEN "page_done" ELSE "page_done_timeout"
    /\ UNCHANGED <<waited_time, polls, cf_page, cf_blocked, cf_return,
                   chapter_written>>

\* core.py:606-633: download_chapter with the content of its only page
write_one_page_chapter ==
    /\ cf_pc \in {"page_done", "page_done_timeout"}
    /\ chapter_written' = IF page_content = "None" THEN "failed" ELSE page_content
    /\ cf_pc' = IF cf_pc = "page_done" THEN "chapter_done" ELSE "chapter_done_timeout"
    /\ UNCHANGED <<waited_time, polls, cf_page, cf_blocked, cf_return,
                   page_content>>

\* ============================================================= metadata store
MenuUrls == {"menu1", "menu2"}

\* A file name that does not depend on the URL
metadata_filename_shared(url) == "chapters_menu1.json"

\* metadata.py:22-26: chapters_<md5 of the URL, 8 hex digits>.json; the URLs
\* of the model have different digests
metadata_filename(url) ==
    IF url = "menu1" THEN "chapters_menu1.json" ELSE "chapters_menu2.json"

MetadataFiles == {metadata_filename(u) : u \in MenuUrls}

\* The (url, title) tuples a chapter list is made of
StoredEntries == {<<"u1", "t1">>, <<"u2", "t2">>}

StoredLists == SeqsUpTo(StoredEntries, MaxStored)

\* The chapter_xpath argument stands for all the selectors of a save
Selectors == {"x1", "x2"}

\* An ordinal that starts at 0
chapter_index_from_zero(i) == i - 1

\* metadata.py:85: "index": i + 1 for i in enumerate(chapters); the
\* positions of a sequence start at 1 here, so position i is ordinal i
chapter_index(i) == i

\* metadata.py:74-88: the dictionary save_chapter_metadata dumps
metadata_record(url, chs, selector) ==
    [kind |-> "object", menu_url |-> url, chapter_xpath |-> selector,
     chapter_count |-> Len(chs),
     chapters |-> [i \in DOMAIN chs |->
                     [index |-> chapter_index(i), url |-> chs[i][1],
                      title |-> chs[i][2]]]]

NoRecord == [kind |-> "absent"]

NotSaved == [saved |-> FALSE]

NoLoad == [done |-> FALSE]

\* A key that a chapter entry of a file does not hold
Missing == "<missing>"

MdIdle ==
    /\ store = [f \in {} |-> NoRecord]
    /\ saved_args = [u \in {} |-> NotSaved]
    /\ load_result = NoLoad

\* An empty chapters/metadata directory
MdInit ==
    /\ store = [f \in MetadataFiles |-> NoRecord]
    /\ saved_args = [u \in MenuUrls |-> NotSaved]
    /\ load_result = NoLoad

\* metadata.py:52-97: save_chapter_metadata(menu_url, chapters, selectors)
save_chapter_metadata ==
    \E url \in MenuUrls, chs \in StoredLists, selector \in Selectors :
        /\ store' = [store EXCEPT ![metadata_filename(url)] =
                                    metadata_record(url, chs, selector)]
        /\ saved_args' = [saved_args EXCEPT ![url] =
                            [saved |-> TRUE, chapters |-> chs,
                             selector |-> selector,
                             over |-> store[metadata_filename(url)].kind = "object"]]
        /\ load_result' = NoLoad

\* The file of a menu URL is changed from outside: no JSON, JSON that is
\* not an object, or an object whose first chapter entry lost a key
corrupt_metadata_file ==
    \E url \in MenuUrls :
        LET f == metadata_filename(url)
            old == store[f]
        IN /\ old.kind # "absent"
           /\ \/ store' = [store EXCEPT ![f] = [kind |-> "invalid_json"]]
              \/ store' = [store EXCEPT ![f] = [kind |-> "not_object"]]
              \/ \E key \in {"url", "title"} :
                    /\ old.kind = "object" /\ old.chapters # <<>>
                    /\ old.chapters[1].url # Missing
                    /\ old.chapters[1].title # Missing
                    /\ store' = [store EXCEPT ![f].chapters[1] =
                                    IF key = "url" THEN [@ EXCEPT !.url = Missing]
                                    ELSE [@ EXCEPT !.title = Missing]]
           /\ saved_args' = [saved_args EXCEPT ![url] = NotSaved]
           /\ load_result' = NoLoad

\* metadata.py:99-130: load_chapter_metadata: the dictionary, None, or the
\* exception that leaves the function
load_chapter_metadata(url) ==
    LET content == store[metadata_filename(url)]
    IN IF content.kind = "absent" THEN [outcome |-> "None"]             \* 112-113
       ELSE IF content.kind = "invalid_json" THEN [outcome |-> "None"]  \* 128-130
       ELSE IF content.kind = "not_object"
            THEN [outcome |-> "raise"]       \* 120: .get on a list, AttributeError
       ELSE IF content.menu_url # url THEN [outcome |-> "None"]         \* 120-124
       ELSE [outcome |-> "metadata", metadata |-> content]

\* metadata.py:145-148: the tuples get_stored_chapters builds
stored_chapters(md) ==
    [i \in DOMAIN md.chapters |->
        <<md.chapters[i].url, md.chapters[i].title, md.chapters[i].index>>]

\* metadata.py:132-150: get_stored_chapters(menu_url)
get_stored_chapters ==
    \E url \in MenuUrls :
        LET loaded == load_chapter_metadata(url)
        IN /\ load_result' =
                IF loaded.outcome # "metadata"
                THEN [done |-> TRUE, url |-> url, outcome |-> loaded.outcome]
                ELSE IF \E i \in DOMAIN loaded.metadata.chapters :
                           \/ loaded.metadata.chapters[i].url = Missing
                           \/ loaded.metadata.chapters[i].title = Missing
                THEN [done |-> TRUE, url |-> url, outcome |-> "raise"]   \* 147: KeyError
                ELSE [done |-> TRUE, url |-> url, outcome |-> "chapters",
                      metadata |-> loaded.metadata,
                      chapters |-> stored_chapters(loaded.metadata)]
           /\ UNCHANGED <<store, saved_args>>

\* ======================================================= content post-processing
\* The characters a content is made of; "c" and the newline only arise from
\* replacements and from the regex filter
ContentChars == {"a", "b"}

NewChars == {"a", "b", "c"}

\* The regex filters of the model: no filter ({}), or a class of characters
ContentRegexes == {{}, {"a"}, {"b"}, {"a", "b"}, {"c"}}

ReplacementPairs == ContentChars \X NewChars

RECURSIVE join_matches(_)
\* utils.py:86: '\n'.join(clean_matches)
join_matches(matches) ==
    IF Len(matches) <= 1 THEN matches
    ELSE <<Head(matches), "\n">> \o join_matches(Tail(matches))

\* utils.py:61-101: process_content_with_regex with a character class: the
\* matches of findall in order, joined by newlines; "" when nothing matches
process_content_with_regex(content, regex) ==
    IF regex = {} THEN content
    ELSE join_matches(SelectSeq(content, LAMBDA ch : ch \in regex))

\* utils.py:118-119: str.replace of a one-character old_str
str_replace(content, pair) ==
    [i \in DOMAIN content |-> IF content[i] = pair[1] THEN pair[2] ELSE content[i]]

RECURSIVE apply_string_replacements(_, _)
\* utils.py:104-122: apply_string_replacements: the pairs first to last
apply_string_replacements(content, pairs) ==
    IF pairs = <<>> THEN content
    ELSE apply_string_replacements(str_replace(content, Head(pairs)), Tail(pairs))

\* A post-processing that replaces before it filters
process_content_replacing_first(content, regex, pairs) ==
    process_content_with_regex(apply_string_replacements(content, pairs), regex)

\* core.py:59-79: _process_content
process_content(content, regex, pairs) ==
    apply_string_replacements(process_content_with_regex(content, regex), pairs)

NotProcessed == <<"<none>">>

PpIdle ==
    /\ pp_content = <<>>
    /\ content_regex = {}
    /\ string_replacements = <<>>
    /\ pp_result = <<>>

\* Any content, filter and replacement list
PpInit ==
    /\ pp_content \in SeqsUpTo(ContentChars, MaxContent)
    /\ content_regex \in ContentRegexes
    /\ string_replacements \in SeqsUpTo(ReplacementPairs, MaxReplacements)
    /\ pp_result = NotProcessed

\* core.py:59-79: a call of _process_content
process_content_call ==
    /\ pp_result = NotProcessed
    /\ pp_result' = process_content(pp_content, content_regex, string_replacements)
    /\ UNCHANGED <<pp_content, content_regex, string_replacements>>

\* ============================================================ sanitize_filename
\* The characters of a file name: the invalid ones, a letter and the underscore
NameChars == InvalidChars \cup {"a", "_"}

NotSanitized == <<"<none>">>

SfIdle ==
    /\ filename = <<>>
    /\ sanitized = <<>>
    /\ resanitized = <<>>

\* Any file name, the empty one included
SfInit ==
    /\ filename \in SeqsUpTo(NameChars, MaxName)
    /\ sanitized = NotSanitized
    /\ resanitized = NotSanitized

\* utils.py:125-135: a call of sanitize_filename
sanitize_call ==
    /\ sanitized = NotSanitized
    /\ sanitized' = sanitize_filename(filename)
    /\ UNCHANGED <<filename, resanitized>>

\* utils.py:125-135: a call of sanitize_filename on its own result
sanitize_again ==
    /\ sanitized # NotSanitized
    /\ resanitized = NotSanitized
    /\ resanitized' = sanitize_filename(sanitized)
    /\ UNCHANGED <<filename, sanitized>>

\* ==================================================== sort_chapters_by_metadata
\* The stems of the *.html files of a chapter directory
Stems == {<<"a">>, <<"_">>, <<"?">>}

\* The titles of metadata records; " " only matches with its space replaced
RecordTitles == {<<"a">>, <<"_">>, <<"?">>, <<" ">>}

\* Records with and without "title" and "index"
MetadataRecords ==
    [title : RecordTitles, index : 1..MaxIndex]
        \cup [title : RecordTitles] \cup [index : {1}]

\* dict.get(key, default)
dict_get(d, key, default) == IF key \in DOMAIN d THEN d[key] ELSE default

\* utils.py:193: title.replace(' ', '_')
replace_spaces(title) ==
    [i \in DOMAIN title |-> IF title[i] = " " THEN "_" ELSE title[i]]

\* utils.py:186-194: the names tried for a title, in the order tried
title_candidates(title) ==
    <<sanitize_filename(title), title, replace_spaces(title)>>

\* utils.py:171-175: title_to_file, keyed by the stems
title_to_file(given) == Range(given)

\* utils.py:186-194: some name of the title is a file
title_matches(title, given) ==
    \E k \in 1..3 : title_candidates(title)[k] \in title_to_file(given)

\* utils.py:186-194: the file of the first name that is one
matched_file(title, given) ==
    LET c == title_candidates(title)
        k == CHOOSE j \in 1..3 :
                /\ c[j] \in title_to_file(given)
                /\ \A i \in 1..(j - 1) : c[i] \notin title_to_file(given)
    IN c[k]

RECURSIVE index_to_file(_, _, _)
\* utils.py:178-194: index_to_file after the records from `records` on, a
\* later record of an index replacing an earlier one
index_to_file(records, given, acc) ==
    IF records = <<>> THEN acc
    ELSE LET title == dict_get(Head(records), "title", <<>>)
             index == dict_get(Head(records), "index", 0)
         IN index_to_file(Tail(records), given,
               IF title # <<>> /\ title_matches(title, given)
               THEN [i \in DOMAIN acc \cup {index} |->
                        IF i = index THEN matched_file(title, given) ELSE acc[i]]
               ELSE acc)

RECURSIVE sorted_keys(_, _)
\* utils.py:197: sorted(index_to_file.keys(), reverse=reverse)
sorted_keys(keys, rev) ==
    IF keys = {} THEN <<>>
    ELSE LET first == CHOOSE k \in keys :
                         \A j \in keys : IF rev THEN j <= k ELSE k <= j
         IN <<first>> \o sorted_keys(keys \ {first}, rev)

\* A sort that puts the given without a record first
sort_chapters_unmatched_first(given, records, rev) ==
    LET by_index == index_to_file(records, given, <<>>)
        indices == sorted_keys(DOMAIN by_index, rev)
        sorted == [k \in DOMAIN indices |-> by_index[indices[k]]]
    IN SelectSeq(given, LAMBDA f : f \notin Range(sorted)) \o sorted

\* utils.py:157-208: sort_chapters_by_metadata
sort_chapters_by_metadata(given, records, rev) ==
    LET by_index == index_to_file(records, given, <<>>)
        indices == sorted_keys(DOMAIN by_index, rev)
        sorted == [k \in DOMAIN indices |-> by_index[indices[k]]]
    IN sorted \o SelectSeq(given, LAMBDA f : f \notin Range(sorted))

NotSorted == <<<<"<none>">>>>

SortIdle ==
    /\ chapter_files = <<>>
    /\ metadata_chapters = <<>>
    /\ reverse = FALSE
    /\ sorted_files = <<>>

\* Any files of one directory in any order, any metadata list
SortInit ==
    /\ chapter_files \in {f \in SeqsUpTo(Stems, MaxFiles) :
                             \A i, j \in DOMAIN f : i # j => f[i] # f[j]}
    /\ metadata_chapters \in SeqsUpTo(MetadataRecords, MaxRecords)
    /\ reverse \in BOOLEAN
    /\ sorted_files = NotSorted

\* cli.py:76-78: merge_chapters sorts the files it found
sort_call ==
    /\ sorted_files = NotSorted
    /\ sorted_files' = sort_chapters_by_metadata(chapter_files, metadata_chapters,
                                                 reverse)
    /\ UNCHANGED <<chapter_files, metadata_chapters, reverse>>

\* ============================================== download_novel, chapter source
\* The list URL download_novel is called with
novel_url == "menu1"

\* What the metadata file of novel_url can hold when download_novel starts:
\* nothing, no JSON, JSON that is no object, a saved record, a saved record
\* whose first entry lost its "url", and the record of another URL
StoredBefore ==
    {NoRecord, [kind |-> "invalid_json"], [kind |-> "not_object"]}
    \cup {metadata_record(novel_url, chs, x) :
             chs \in StoredLists, x \in Selectors}
    \cup {[metadata_record(novel_url, chs, "x1") EXCEPT !.chapters[1].url = Missing] :
             chs \in StoredLists \ {<<>>}}
    \cup {metadata_record("menu2", <<<<"u1", "t1">>>>, "x1")}

\* A download_novel that never looks at the store
use_stored_never(force) == FALSE

\* core.py:873: `if not force_parse`
use_stored(force) == ~force

RsIdle ==
    /\ force_parse = FALSE
    /\ chapter_xpath = "x1"
    /\ site_chapters = <<>>
    /\ list_fetches = 0
    /\ saves = 0
    /\ novel_chapters = <<>>
    /\ novel_tasks = <<>>
    /\ novel_pc = "idle"
    /\ stored_before = NoRecord

\* core.py:856-870: download_novel is called
RsInit ==
    /\ force_parse \in BOOLEAN
    /\ chapter_xpath \in Selectors
    /\ site_chapters \in StoredLists
    /\ list_fetches = 0
    /\ saves = 0
    /\ novel_chapters = <<>>
    /\ novel_tasks = <<>>
    /\ novel_pc = "start"
    /\ stored_before \in StoredBefore
    /\ store = [f \in MetadataFiles |->
                  IF f = metadata_filename(novel_url) THEN stored_before
                  ELSE NoRecord]
    /\ saved_args = [u \in {} |-> NotSaved]
    /\ load_result = NoLoad

\* core.py:870-881: the stored chapters, unless force_parse; an exception of
\* get_stored_chapters reaches the handler of core.py:951-955
check_stored_chapters ==
    /\ novel_pc = "start"
    /\ IF ~use_stored(force_parse)
       THEN novel_pc' = "parse" /\ UNCHANGED novel_chapters
       ELSE LET loaded == load_chapter_metadata(novel_url)
            IN IF loaded.outcome = "raise"
               THEN novel_pc' = "error" /\ UNCHANGED novel_chapters
               ELSE IF loaded.outcome = "None"
               THEN novel_pc' = "parse" /\ UNCHANGED novel_chapters
               ELSE IF \E i \in DOMAIN loaded.metadata.chapters :
                          \/ loaded.metadata.chapters[i].url = Missing
                          \/ loaded.metadata.chapters[i].title = Missing
               THEN novel_pc' = "error" /\ UNCHANGED novel_chapters
               ELSE /\ novel_chapters' = stored_chapters(loaded.metadata)
                    /\ novel_pc' = IF loaded.metadata.chapters # <<>>
                                   THEN "tasks" ELSE "parse"
    /\ UNCHANGED <<force_parse, chapter_xpath, site_chapters, list_fetches,
                   saves, novel_tasks, stored_before, store>>

\* core.py:884-898: get_chapter_links, then save_chapter_metadata when it
\* found chapters; it can raise (core.py:951-955)
parse_from_url ==
    /\ novel_pc = "parse"
    /\ list_fetches' = list_fetches + 1
    /\ \E raised \in BOOLEAN :
        IF raised
        THEN novel_pc' = "error" /\ UNCHANGED <<novel_chapters, saves, store>>
        ELSE IF site_chapters = <<>>
        THEN /\ novel_pc' = "no_chapters"
             /\ novel_chapters' = <<>>
             /\ UNCHANGED <<saves, store>>
        ELSE /\ novel_pc' = "tasks"
             /\ novel_chapters' = site_chapters
             /\ saves' = saves + 1
             /\ store' = [store EXCEPT ![metadata_filename(novel_url)] =
                            metadata_record(novel_url, site_chapters, chapter_xpath)]
    /\ UNCHANGED <<force_parse, chapter_xpath, site_chapters, novel_tasks,
                   stored_before>>

\* core.py:920-931: one download_chapter(url, title) per entry, in order
create_tasks ==
    /\ novel_pc = "tasks"
    /\ novel_tasks' = [i \in DOMAIN novel_chapters |->
                         <<novel_chapters[i][1], novel_chapters[i][2]>>]
    /\ novel_pc' = "gather"
    /\ UNCHANGED <<force_parse, chapter_xpath, site_chapters, list_fetches,
                   saves, novel_chapters, stored_before, store>>

\* ================================================== progress of download_novel
\* The steps of download_novel and of its chapter tasks that decide whether
\* a call ends: the gate, the fetches inside it, the exits and the gather.
GateTasks == 1..gate_chapters

\* asyncio.Semaphore.locked()
gate_locked(sem) == sem.value = 0 \/ sem.waiters # <<>>

\* A gate that keeps the slot of a task that raised
gate_aexit_unless_raised(sem, exc) ==
    IF exc THEN sem ELSE Semaphore_release(sem)

\* core.py:592: `async with self.semaphore` releases on every way out
gate_aexit(sem, exc) == Semaphore_release(sem)

GateIdle ==
    /\ gate_chapters = 0
    /\ gate_existing = {}
    /\ gate_semaphore = [value |-> 0, waiters |-> <<>>, woken |-> {}]
    /\ gate_pc = <<>>
    /\ gate_fetches = <<>>
    /\ gate_results = <<>>
    /\ gate_main = "idle"

\* core.py:56, 856: a downloader with concurrency >= 1 and a finite list
GateInit ==
    /\ gate_chapters \in 0..MaxChapters
    /\ gate_existing \in SUBSET (1..gate_chapters)
    /\ \E n \in 1..MaxConcurrency :
          gate_semaphore = [value |-> n, waiters |-> <<>>, woken |-> {}]
    /\ gate_pc = [t \in 1..gate_chapters |-> "pending"]
    /\ gate_fetches = [t \in 1..gate_chapters |-> 0]
    /\ gate_results = [t \in 1..gate_chapters |-> "none"]
    /\ gate_main = "start"

\* core.py:870-934: download_novel up to asyncio.gather; an exception before
\* it, or an empty list, ends the call (core.py:896-898, 951-955)
gate_download_novel ==
    /\ gate_main = "start"
    /\ \/ gate_main' = "returned"
       \/ gate_chapters > 0 /\ gate_main' = "gather"
    /\ UNCHANGED <<gate_chapters, gate_existing, gate_semaphore, gate_pc,
                   gate_fetches, gate_results>>

\* core.py:561-592: a task from its start to its first suspension: mkdir
\* raises, the file exists, the gate is locked, or the task gets in and
\* has between one and MaxPages + 1 fetches before it
gate_download_chapter(t) ==
    /\ gate_main = "gather"
    /\ gate_pc[t] = "pending"
    /\ \A u \in GateTasks : u < t => gate_pc[u] # "pending"
    /\ \/ /\ gate_pc' = [gate_pc EXCEPT ![t] = "done"]          \* 581 raised
          /\ gate_results' = [gate_results EXCEPT ![t] = "exc"]
          /\ UNCHANGED <<gate_semaphore, gate_fetches>>
       \/ /\ t \in gate_existing                                  \* 588-590
          /\ gate_pc' = [gate_pc EXCEPT ![t] = "done"]
          /\ gate_results' = [gate_results EXCEPT ![t] = "True"]
          /\ UNCHANGED <<gate_semaphore, gate_fetches>>
       \/ /\ t \notin gate_existing
          /\ gate_locked(gate_semaphore)
          /\ gate_pc' = [gate_pc EXCEPT ![t] = "waiting"]
          /\ gate_semaphore' = [gate_semaphore EXCEPT !.waiters = Append(@, t)]
          /\ UNCHANGED <<gate_fetches, gate_results>>
       \/ /\ t \notin gate_existing
          /\ ~gate_locked(gate_semaphore)
          /\ gate_semaphore' = [gate_semaphore EXCEPT !.value = @ - 1]
          /\ gate_pc' = [gate_pc EXCEPT ![t] = "inside"]
          /\ \E n \in 1..(MaxPages + 1) :
                gate_fetches' = [gate_fetches EXCEPT ![t] = n]
          /\ UNCHANGED gate_results
    /\ UNCHANGED <<gate_chapters, gate_existing, gate_main>>

\* core.py:592: the waiter a release woke resumes with the slot it was handed
gate_acquire(t) ==
    /\ gate_main = "gather"
    /\ gate_pc[t] = "waiting"
    /\ \A u \in GateTasks : gate_pc[u] # "pending"
    /\ gate_semaphore.waiters # <<>>
    /\ Head(gate_semaphore.waiters) = t
    /\ t \in gate_semaphore.woken
    /\ gate_semaphore' = Semaphore_resume(gate_semaphore, t)
    /\ gate_pc' = [gate_pc EXCEPT ![t] = "inside"]
    /\ \E n \in 1..(MaxPages + 1) :
          gate_fetches' = [gate_fetches EXCEPT ![t] = n]
    /\ UNCHANGED <<gate_chapters, gate_existing, gate_results, gate_main>>

\* core.py:597-638: one fetch or wait of the task ends: it raised (new_tab
\* can raise without suspending, before the next task starts), or it was the
\* last one and the task writes and leaves, or another one follows
gate_fetch(t) ==
    /\ gate_main = "gather"
    /\ gate_pc[t] = "inside"
    /\ \/ /\ \/ \A u \in GateTasks : gate_pc[u] # "pending"   \* 635-638
             \/ \A u \in GateTasks : u > t => gate_pc[u] = "pending"
          /\ gate_pc' = [gate_pc EXCEPT ![t] = "done"]
          /\ gate_results' = [gate_results EXCEPT ![t] = "False"]
          /\ gate_semaphore' = gate_aexit(gate_semaphore, TRUE)
          /\ gate_fetches' = [gate_fetches EXCEPT ![t] = 0]
       \/ /\ \A u \in GateTasks : gate_pc[u] # "pending"
          /\ gate_fetches[t] = 1                                   \* 614-633
          /\ gate_pc' = [gate_pc EXCEPT ![t] = "done"]
          /\ \E r \in {"True", "False"} :
                gate_results' = [gate_results EXCEPT ![t] = r]
          /\ gate_semaphore' = gate_aexit(gate_semaphore, FALSE)
          /\ gate_fetches' = [gate_fetches EXCEPT ![t] = 0]
       \/ /\ \A u \in GateTasks : gate_pc[u] # "pending"
          /\ gate_fetches[t] > 1                                   \* 606-612
          /\ gate_fetches' = [gate_fetches EXCEPT ![t] = @ - 1]
          /\ UNCHANGED <<gate_pc, gate_semaphore, gate_results>>
    /\ UNCHANGED <<gate_chapters, gate_existing, gate_main>>

\* core.py:934-949: gather has every result, download_novel returns
gate_gather ==
    /\ gate_main = "gather"
    /\ \A t \in GateTasks : gate_pc[t] = "done"
    /\ gate_main' = "returned"
    /\ UNCHANGED <<gate_chapters, gate_existing, gate_semaphore, gate_pc,
                   gate_fetches, gate_results>>

\* ================================================================ TaskExecutor
ConfigPaths == {"c1", "c2"}

\* A path without a file, a file that is no JSON, JSON the validator rejects
\* (parsing.hash missing, for one: config_validator.py:152-156), a valid file
ConfigKinds == {"missing", "invalid_json", "invalid", "valid"}

\* The metadata file: absent, no JSON, the record of another menu_url, the
\* record of the configured menu_url
TaskMetadataKinds == {"absent", "unreadable", "other_url", "same_url"}

\* task_executor.py:52-136: the steps of the workflow, in the order written
WorkflowSteps == <<"parse", "download", "replace", "merge">>

NotCalled == [outcome |-> "none"]

\* config_manager.py:21-60: load_config: the exception it raises, or "ok".
\* Line 51 builds json.JSONDecodeError from one argument, a TypeError.
load_config(path) ==
    IF config_files[path] = "missing" THEN "FileNotFoundError"         \* 39-40
    ELSE IF path \in config_cache THEN "ok"                            \* 43-45
    ELSE IF config_files[path] = "invalid_json" THEN "TypeError"       \* 48-52
    ELSE IF config_files[path] = "invalid" THEN "ValueError"           \* 55-56
    ELSE "ok"

\* task_executor.py:55-85, 144-174: the parse step is skipped with success
\* over a metadata file of the same URL; otherwise _execute_parse_step
\* builds NovelDownloader(..., headless=...), which core.py:25-33 does not
\* accept: the TypeError is caught and the step reports failure
parse_step_succeeds == task_metadata = "same_url"

\* task_executor.py:176-208: _execute_download_step builds
\* NovelDownloader(..., headless=..., custom_hash=..., chrome_path=...) too
download_step_succeeds == FALSE

\* task_executor.py:210-258: the steps a call never reaches
step_succeeds(step) ==
    IF step = "parse" THEN parse_step_succeeds
    ELSE IF step = "download" THEN download_step_succeeds
    ELSE TRUE

RECURSIVE run_steps(_, _)
\* task_executor.py:52-134: each step runs after the one before succeeded;
\* the record of the steps run, the last of which may have failed
run_steps(k, done) ==
    IF k > Len(WorkflowSteps) THEN done
    ELSE LET step == WorkflowSteps[k]
             ok == step_succeeds(step)
             now == Append(done, [step |-> step, success |-> ok])
         IN IF ok THEN run_steps(k + 1, now) ELSE now

\* task_executor.py:136-143: `except Exception`: the record it returns reads
\* results.get("steps", {}); with `results` not yet assigned (line 44) that
\* read raises UnboundLocalError out of execute_task
exception_handler(results_bound, exception) ==
    IF results_bound
    THEN [outcome |-> "returned", success |-> FALSE, error |-> exception,
          steps |-> <<>>]
    ELSE [outcome |-> "raised", exception |-> "UnboundLocalError"]

TeIdle ==
    /\ config_files = <<>>
    /\ task_metadata = "absent"
    /\ config_cache = {}
    /\ calls = 0
    /\ task_return = NotCalled

\* task_executor.py:19-20: a new TaskExecutor, any files on disk
TeInit ==
    /\ config_files \in [ConfigPaths -> ConfigKinds]
    /\ task_metadata \in TaskMetadataKinds
    /\ config_cache = {}
    /\ calls = 0
    /\ task_return = NotCalled

\* task_executor.py:22-143: execute_task(config_path)
execute_task ==
    \E path \in ConfigPaths :
        /\ calls < MaxCalls
        /\ calls' = calls + 1
        /\ LET loaded == load_config(path)
           IN IF loaded # "ok"
              THEN /\ task_return' = exception_handler(FALSE, loaded)
                   /\ UNCHANGED config_cache
              ELSE /\ config_cache' = config_cache \cup {path}
                   /\ task_return' =
                        LET steps == run_steps(1, <<>>)
                            last == steps[Len(steps)]
                        IN [outcome |-> "returned",
                            success |-> last.success,
                            error |-> IF last.success THEN "none"
                                      ELSE last.step,
                            steps |-> steps]
        /\ UNCHANGED <<config_files, task_metadata>>

\* config_manager.py:21-60: load_config called on the manager of the
\* executor without execute_task; a file that loads is cached, a raise
\* leaves the cache alone
load_config_call ==
    \E path \in ConfigPaths :
        /\ load_config(path) = "ok"
        /\ path \notin config_cache
        /\ config_cache' = config_cache \cup {path}
        /\ UNCHANGED <<config_files, task_metadata, calls, task_return>>

\* config_manager.py:138-140: clear_cache empties the cache
clear_cache ==
    /\ config_cache # {}
    /\ config_cache' = {}
    /\ UNCHANGED <<config_files, task_metadata, calls, task_return>>

\* config_manager.py:39, 48-49: the file load_config finds at a path is the
\* one on disk at the call; between calls it can be removed or rewritten
rewrite_config_file ==
    \E path \in ConfigPaths, kind \in ConfigKinds :
        /\ kind # config_files[path]
        /\ config_files' = [config_files EXCEPT ![path] = kind]
        /\ UNCHANGED <<task_metadata, config_cache, calls, task_return>>

Init == DownloadInit /\ ListIdle /\ PagesIdle /\ CfIdle /\ MdIdle /\ PpIdle /\ SfIdle /\ SortIdle /\ RsIdle /\ GateIdle /\ TeIdle

Next ==
    \/ \E exc \in BOOLEAN : download_novel(exc) /\ UNCHANGED <<listvars, pagevars, cfvars, mdvars, ppvars, sfvars, sortvars, rsvars, gatevars, tevars>>
    \/ \E t \in Tasks : download_chapter(t) /\ UNCHANGED <<listvars, pagevars, cfvars, mdvars, ppvars, sfvars, sortvars, rsvars, gatevars, tevars>>
    \/ \E t \in Tasks : semaphore_acquire(t) /\ UNCHANGED <<listvars, pagevars, cfvars, mdvars, ppvars, sfvars, sortvars, rsvars, gatevars, tevars>>
    \/ \E t \in Tasks : get_chapter_pagination_links(t) /\ UNCHANGED <<listvars, pagevars, cfvars, mdvars, ppvars, sfvars, sortvars, rsvars, gatevars, tevars>>
    \/ \E t \in Tasks : download_chapter_page(t) /\ UNCHANGED <<listvars, pagevars, cfvars, mdvars, ppvars, sfvars, sortvars, rsvars, gatevars, tevars>>
    \/ gather_results /\ UNCHANGED <<listvars, pagevars, cfvars, mdvars, ppvars, sfvars, sortvars, rsvars, gatevars, tevars>>
    \/ download_again /\ UNCHANGED <<listvars, pagevars, cfvars, mdvars, ppvars, sfvars, sortvars, rsvars, gatevars, tevars>>
    \/ replace_chapter_strings /\ UNCHANGED <<listvars, pagevars, cfvars, mdvars, ppvars, sfvars, sortvars, rsvars, gatevars, tevars>>

\* download_novel on a stored chapter list
Spec == Init /\ [][Next]_vars

InitConstruct == ConstructInit /\ ListIdle /\ PagesIdle /\ CfIdle /\ MdIdle /\ PpIdle /\ SfIdle /\ SortIdle /\ RsIdle /\ GateIdle /\ TeIdle

\* download_novel on a downloader built with any concurrency argument
SpecConstruct == InitConstruct /\ [][Next]_vars

InitList == ListInit /\ DownloadIdle /\ PagesIdle /\ CfIdle /\ MdIdle /\ PpIdle /\ SfIdle /\ SortIdle /\ RsIdle /\ GateIdle /\ TeIdle

NextList ==
    \/ extract_chapters_from_page /\ UNCHANGED <<dlvars, pagevars, cfvars, mdvars, ppvars, sfvars, sortvars, rsvars, gatevars, tevars>>
    \/ next_page /\ UNCHANGED <<dlvars, pagevars, cfvars, mdvars, ppvars, sfvars, sortvars, rsvars, gatevars, tevars>>
    \/ parse_chapters /\ UNCHANGED <<dlvars, pagevars, cfvars, mdvars, ppvars, sfvars, sortvars, rsvars, gatevars, tevars>>
    \/ parse_chapters_again /\ UNCHANGED <<dlvars, pagevars, cfvars, mdvars, ppvars, sfvars, sortvars, rsvars, gatevars, tevars>>

\* parse_chapters on a site
SpecList == InitList /\ [][NextList]_vars

\* ==================================================================== claims
\* of the download orchestration, checked under Spec

\* C1: every statistics record download_novel returns satisfies
\* total = downloaded + skipped + failed, on every path (tasks that return,
\* tasks that raise, no chapters, the outer exception handler).
C1_StatsExact ==
    stats.returned =>
        stats.total = stats.downloaded + stats.skipped + stats.failed

\* a run returned statistics in which some task raised
C1_Witness ==
    /\ main = "returned"
    /\ stats.returned
    /\ stats.total > 0
    /\ \E t \in Tasks : results[t] = "exc"

\* C2 (as claimed): a second run, after a first run that wrote every chapter
\* and with no file deleted, reports downloaded = 0 and skipped = total.
C2_SecondRunSkipsAll ==
    (rerun /\ prev_written /\ main = "returned" /\ stats.returned
       /\ stats.total = Len(chapters))
    => (stats.downloaded = 0 /\ stats.skipped = stats.total)

\* C3: a task whose output file exists when it starts opens no tab, never
\* acquires the gate, writes nothing, and is done with the result True.
C3_ExistingFileNoWork ==
    \A t \in Tasks :
        trace[t].existed =>
            /\ ~trace[t].opened_tab
            /\ trace[t].acquires = 0
            /\ trace[t].writes = 0
            /\ pc[t] = "done"
            /\ results[t] = "True"

\* a task found its file (stored under the sanitized title) and is done
C3_Witness ==
    \E t \in Tasks :
        /\ trace[t].existed
        /\ pc[t] = "done"
        /\ chapter_file(t) # chapters[t]

\* C4: at most `concurrency` tasks are past acquire and before release.
C4_ConcurrencyBound == Cardinality(Holding) <= concurrency

\* the gate is full and a task queues behind it
C4_Witness ==
    /\ Cardinality(Holding) = concurrency
    /\ \E t \in Tasks : pc[t] = "waiting"

\* C5: the gate is released on every exit path: a task that is done has
\* released as often as it acquired (at most once), the free slots and the
\* slots handed to woken waiters are the capacity less the tasks inside, and
\* when download_novel returns the gate has its full capacity.
C5_GateReleased ==
    /\ \A t \in Tasks :
        /\ trace[t].acquires <= 1
        /\ trace[t].releases =
              IF t \in Holding THEN trace[t].acquires - 1 ELSE trace[t].acquires
    /\ semaphore.value + Cardinality(semaphore.woken)
          = concurrency - Cardinality(Holding)
    /\ main = "returned" =>
          semaphore = [value |-> concurrency, waiters |-> <<>>, woken |-> {}]

\* a task failed inside the gate and its release handed the slot to the task
\* that queued behind it: no slot is free, the waiter is woken
C5_WitnessHandedSlot ==
    /\ main = "gather"
    /\ concurrency = 1
    /\ \E t, u \in Tasks :
        /\ pc[t] = "done" /\ results[t] = "False" /\ trace[t].releases = 1
        /\ pc[u] = "waiting"
        /\ semaphore = [value |-> 0, waiters |-> <<u>>, woken |-> {u}]

\* download_novel returned after a task failed inside the gate
C5_Witness ==
    /\ main = "returned"
    /\ \E t \in Tasks :
        /\ trace[t].acquires = 1
        /\ trace[t].failure
        /\ results[t] = "False"

\* C6 (as claimed): when a page of a chapter fails, the chapter ends Failed
\* and no file holding only part of the chapter's pages is produced.
C6_NoPartialChapter ==
    /\ \A f \in FileNames : files[f].present => files[f].content # "some"
    /\ \A t \in Tasks :
        (pc[t] = "done" /\ trace[t].failure) => results[t] # "True"

\* Chapters whose file names differ pairwise
DistinctFiles ==
    \A t, u \in Tasks : t # u => chapter_file(t) # chapter_file(u)

\* C7 (as claimed): in a first run over n chapters with distinct file names,
\* k of which met a failure, the statistics are {n, n-k, 0, k} and exactly
\* n-k output files exist.
C7_FailureIsolation ==
    (~rerun /\ main = "returned" /\ stats.returned
       /\ stats.total = Len(chapters) /\ chapters # <<>> /\ DistinctFiles)
    => LET n == Len(chapters)
           k == Cardinality({t \in Tasks : trace[t].failure})
       IN /\ stats.downloaded = n - k
          /\ stats.skipped = 0
          /\ stats.failed = k
          /\ Cardinality({f \in FileNames : files[f].present}) = n - k

\* C8 (as claimed): a chapter file either does not exist or holds the whole
\* content, and no existing file belongs to a chapter that ended Failed.
C8_AtomicWrite ==
    /\ \A f \in FileNames : files[f].present => files[f].content # "cut"
    /\ \A t \in Tasks :
        (results[t] = "False" /\ trace[t].writes > 0)
            => ~files[chapter_file(t)].present

InitPages == PagesInit /\ DownloadIdle /\ ListIdle /\ CfIdle /\ MdIdle /\ PpIdle /\ SfIdle /\ SortIdle /\ RsIdle /\ GateIdle /\ TeIdle

NextPages ==
    \/ chapter_pagination_links /\ UNCHANGED <<dlvars, listvars, cfvars, mdvars, ppvars, sfvars, sortvars, rsvars, gatevars, tevars>>

\* get_chapter_pagination_links on a chapter
SpecPages == InitPages /\ [][NextPages]_vars

InitWait == CfInit /\ DownloadIdle /\ ListIdle /\ PagesIdle /\ MdIdle /\ PpIdle /\ SfIdle /\ SortIdle /\ RsIdle /\ GateIdle /\ TeIdle

NextWait ==
    \/ cloudflare_poll /\ UNCHANGED <<dlvars, listvars, pagevars, mdvars, ppvars, sfvars, sortvars, rsvars, gatevars, tevars>>
    \/ cloudflare_timeout /\ UNCHANGED <<dlvars, listvars, pagevars, mdvars, ppvars, sfvars, sortvars, rsvars, gatevars, tevars>>
    \/ download_chapter_page_after_wait /\ UNCHANGED <<dlvars, listvars, pagevars, mdvars, ppvars, sfvars, sortvars, rsvars, gatevars, tevars>>
    \/ write_one_page_chapter /\ UNCHANGED <<dlvars, listvars, pagevars, mdvars, ppvars, sfvars, sortvars, rsvars, gatevars, tevars>>

\* _download_chapter_page on a page that may show a challenge
SpecWait == InitWait /\ [][NextWait]_vars

InitMeta == MdInit /\ DownloadIdle /\ ListIdle /\ PagesIdle /\ CfIdle /\ PpIdle /\ SfIdle /\ SortIdle /\ RsIdle /\ GateIdle /\ TeIdle

NextMeta ==
    \/ save_chapter_metadata /\ UNCHANGED <<dlvars, listvars, pagevars, cfvars, ppvars, sfvars, sortvars, rsvars, gatevars, tevars>>
    \/ corrupt_metadata_file /\ UNCHANGED <<dlvars, listvars, pagevars, cfvars, ppvars, sfvars, sortvars, rsvars, gatevars, tevars>>
    \/ get_stored_chapters /\ UNCHANGED <<dlvars, listvars, pagevars, cfvars, ppvars, sfvars, sortvars, rsvars, gatevars, tevars>>

\* MetadataManager on a metadata directory
SpecMeta == InitMeta /\ [][NextMeta]_vars

InitProcess == PpInit /\ DownloadIdle /\ ListIdle /\ PagesIdle /\ CfIdle /\ MdIdle /\ SfIdle /\ SortIdle /\ RsIdle /\ GateIdle /\ TeIdle

NextProcess ==
    \/ process_content_call /\ UNCHANGED <<dlvars, listvars, pagevars, cfvars, mdvars, sfvars, sortvars, rsvars, gatevars, tevars>>

\* _process_content on a content
SpecProcess == InitProcess /\ [][NextProcess]_vars

InitSanitize == SfInit /\ DownloadIdle /\ ListIdle /\ PagesIdle /\ CfIdle /\ MdIdle /\ PpIdle /\ SortIdle /\ RsIdle /\ GateIdle /\ TeIdle

NextSanitize ==
    \/ sanitize_call /\ UNCHANGED <<dlvars, listvars, pagevars, cfvars, mdvars, ppvars, sortvars, rsvars, gatevars, tevars>>
    \/ sanitize_again /\ UNCHANGED <<dlvars, listvars, pagevars, cfvars, mdvars, ppvars, sortvars, rsvars, gatevars, tevars>>

\* sanitize_filename on a file name, and on its result
SpecSanitize == InitSanitize /\ [][NextSanitize]_vars

InitSort == SortInit /\ DownloadIdle /\ ListIdle /\ PagesIdle /\ CfIdle /\ MdIdle /\ PpIdle /\ SfIdle /\ RsIdle /\ GateIdle /\ TeIdle

NextSort ==
    \/ sort_call /\ UNCHANGED <<dlvars, listvars, pagevars, cfvars, mdvars, ppvars, sfvars, rsvars, gatevars, tevars>>

\* sort_chapters_by_metadata on the files and the metadata of a merge
SpecSort == InitSort /\ [][NextSort]_vars

InitResume == RsInit /\ DownloadIdle /\ ListIdle /\ PagesIdle /\ CfIdle /\ PpIdle /\ SfIdle /\ SortIdle /\ GateIdle /\ TeIdle

NextResume ==
    \/ check_stored_chapters /\ UNCHANGED <<dlvars, listvars, pagevars, cfvars, saved_args, load_result, ppvars, sfvars, sortvars, gatevars, tevars>>
    \/ parse_from_url /\ UNCHANGED <<dlvars, listvars, pagevars, cfvars, saved_args, load_result, ppvars, sfvars, sortvars, gatevars, tevars>>
    \/ create_tasks /\ UNCHANGED <<dlvars, listvars, pagevars, cfvars, saved_args, load_result, ppvars, sfvars, sortvars, gatevars, tevars>>

\* download_novel from its call to the creation of the chapter tasks
SpecResume == InitResume /\ [][NextResume]_vars

InitGate == GateInit /\ DownloadIdle /\ ListIdle /\ PagesIdle /\ CfIdle /\ MdIdle /\ PpIdle /\ SfIdle /\ SortIdle /\ RsIdle /\ TeIdle

\* The steps of download_novel itself
gate_main_step ==
    /\ gate_download_novel \/ gate_gather
    /\ UNCHANGED <<dlvars, listvars, pagevars, cfvars, mdvars, ppvars, sfvars, sortvars, rsvars, tevars>>

\* The steps of the task of chapter t
gate_task_step(t) ==
    /\ t \in GateTasks
    /\ gate_download_chapter(t) \/ gate_acquire(t) \/ gate_fetch(t)
    /\ UNCHANGED <<dlvars, listvars, pagevars, cfvars, mdvars, ppvars, sfvars, sortvars, rsvars, tevars>>

NextGate ==
    \/ gate_download_novel /\ UNCHANGED <<dlvars, listvars, pagevars, cfvars, mdvars, ppvars, sfvars, sortvars, rsvars, tevars>>
    \/ \E t \in GateTasks : gate_download_chapter(t) /\ UNCHANGED <<dlvars, listvars, pagevars, cfvars, mdvars, ppvars, sfvars, sortvars, rsvars, tevars>>
    \/ \E t \in GateTasks : gate_acquire(t) /\ UNCHANGED <<dlvars, listvars, pagevars, cfvars, mdvars, ppvars, sfvars, sortvars, rsvars, tevars>>
    \/ \E t \in GateTasks : gate_fetch(t) /\ UNCHANGED <<dlvars, listvars, pagevars, cfvars, mdvars, ppvars, sfvars, sortvars, rsvars, tevars>>
    \/ gate_gather /\ UNCHANGED <<dlvars, listvars, pagevars, cfvars, mdvars, ppvars, sfvars, sortvars, rsvars, tevars>>

\* One call of download_novel, no scheduling assumed
SpecGate == InitGate /\ [][NextGate]_vars

\* The event loop runs every task that can run, and every fetch and wait
\* returns: no step of download_novel or of a chapter task is put off forever
FairSpecGate ==
    /\ SpecGate
    /\ WF_vars(gate_main_step)
    /\ \A t \in 1..MaxChapters : WF_vars(gate_task_step(t))

InitTask == TeInit /\ DownloadIdle /\ ListIdle /\ PagesIdle /\ CfIdle /\ MdIdle /\ PpIdle /\ SfIdle /\ SortIdle /\ RsIdle /\ GateIdle

NextTask ==
    \/ execute_task /\ UNCHANGED <<dlvars, listvars, pagevars, cfvars, mdvars, ppvars, sfvars, sortvars, rsvars, gatevars>>
    \/ load_config_call /\ UNCHANGED <<dlvars, listvars, pagevars, cfvars, mdvars, ppvars, sfvars, sortvars, rsvars, gatevars>>
    \/ clear_cache /\ UNCHANGED <<dlvars, listvars, pagevars, cfvars, mdvars, ppvars, sfvars, sortvars, rsvars, gatevars>>
    \/ rewrite_config_file /\ UNCHANGED <<dlvars, listvars, pagevars, cfvars, mdvars, ppvars, sfvars, sortvars, rsvars, gatevars>>

\* Calls on one TaskExecutor and its ConfigManager, over files that change
SpecTask == InitTask /\ [][NextTask]_vars

\* ---------------------------------------------------------------------------
\* claims of the chapter-list walk, checked under SpecList

RECURSIVE LogChapters(_)
\* The chapters the logged pages hold, in the order the pages were extracted
LogChapters(log) ==
    IF log = <<>> THEN <<>>
    ELSE LogChapters(SubSeq(log, 1, Len(log) - 1))
         \o (IF log[Len(log)].ok THEN page_chapters(log[Len(log)].url) ELSE <<>>)

\* C9: the walk ends on any finite site: no page is extracted twice, so the
\* loop makes at most one turn per page and one more that stops on a visited
\* URL, and what get_chapter_links returns is the chapters of the extracted
\* pages, each page once, in walk order.
C9_CycleTermination ==
    /\ Len(visit_log) <= MaxListPages
    /\ page_no <= Len(visit_log) + 1
    /\ \A i, j \in DOMAIN visit_log :
          i # j => visit_log[i].url # visit_log[j].url
    /\ lpc = "returned" => list_chapters = LogChapters(visit_log)

\* page 1 gave A,B and led to page 2, page 2 gave C,D and led back to page 1:
\* the walk returned [A,B,C,D]
C9_Witness ==
    /\ lpc = "returned"
    /\ visit_log = <<[url |-> 1, ok |-> TRUE], [url |-> 2, ok |-> TRUE]>>
    /\ current_url = 1
    /\ get_next_page_url(2) = 1
    /\ list_chapters = page_chapters(1) \o page_chapters(2)

\* C10 (as claimed): when the fetch of the first list page fails, the walk
\* goes to no later page, returns no chapter, and no metadata is saved.
C10_FirstPageFailureFatal ==
    (visit_log # <<>> /\ ~visit_log[1].ok)
    => /\ Len(visit_log) = 1
       /\ list_chapters = <<>>
       /\ ~metadata.saved
       /\ parse_result = <<>>

\* The sequence `pre` starts the sequence `all`
IsPrefix(pre, all) ==
    Len(pre) <= Len(all) /\ SubSeq(all, 1, Len(pre)) = pre

\* C11 (as claimed): when the fetch of a list page other than the first
\* fails, in whatever way, the page adds no chapter and the discovery is
\* neither halted nor discarded: get_chapter_links does not raise, what it
\* returns starts with the chapters of the pages extracted before the failed
\* one, in order, and parse_chapters hands these chapters on.
C11_LaterPageFailure ==
    \A i \in 2..Len(visit_log) :
        ~visit_log[i].ok =>
            /\ \A k \in DOMAIN list_chapters :
                  list_chapters[k][1] # visit_log[i].url
            /\ lpc # "raised"
            /\ lpc \in {"next", "extract", "returned"} =>
                  IsPrefix(LogChapters(SubSeq(visit_log, 1, i - 1)), list_chapters)
            /\ lpc = "parsed" =>
                  IsPrefix(LogChapters(SubSeq(visit_log, 1, i - 1)), parse_result)

\* The first pagination link of page p that leads away from p; 0 when none
FirstLinkAway(p) ==
    LET away == {i \in DOMAIN list_links[p] : list_links[p][i] # p}
    IN IF away = {} THEN 0
       ELSE list_links[p][CHOOSE i \in away : \A j \in away : i <= j]

RECURSIVE TraversalFrom(_, _)
\* The pages of the site in traversal order from p, each page once
TraversalFrom(p, seen) ==
    IF p = 0 \/ p \in seen THEN <<>>
    ELSE <<p>> \o (IF chapter_list_pagination_xpath
                   THEN TraversalFrom(FirstLinkAway(p), seen \cup {p})
                   ELSE <<>>)

RECURSIVE DocumentOrder(_)
\* The entries of the pages of `walk`, page after page, each in document order
DocumentOrder(walk) ==
    IF walk = <<>> THEN <<>>
    ELSE [i \in 1..ChaptersPerPage |-> <<Head(walk), i>>]
         \o DocumentOrder(Tail(walk))

\* C12: on a static site whose pages all load, get_chapter_links returns the
\* entries of the pages in traversal order, each page in document order, and
\* a second call on the same site returns the same sequence as the first.
C12_OrderingDeterminism ==
    (lpc = "returned" /\ ~faults) =>
        /\ list_chapters = DocumentOrder(TraversalFrom(menu_url, {}))
        /\ (first_call.done /\ ~first_call.faults)
              => list_chapters = first_call.chapters

\* the second call over two pages returned what the first call returned
C12_Witness ==
    /\ lpc = "returned" /\ ~faults
    /\ first_call.done /\ ~first_call.faults
    /\ Len(visit_log) = 2
    /\ list_chapters = first_call.chapters
    /\ Len(list_chapters) = 2 * ChaptersPerPage

\* ---------------------------------------------------------------------------
\* claims of the pages of one chapter, checked under SpecPages

C13_WitnessFailed ==
    /\ pages_pc = "returned"
    /\ pages_fetch = "short"
    /\ chapter_site[chapter_url] # <<>>
    /\ pages_result = <<chapter_url>>

\* Every page of the chapter carries at most one pagination link
SingleLinks == \A p \in ChapterPages : Len(chapter_site[p]) <= 1

RECURSIVE ChainFrom(_, _)
\* The pages reached from p by following the link of each page, each page once
ChainFrom(p, seen) ==
    IF p \in seen THEN <<>>
    ELSE <<p>> \o (IF chapter_site[p] = <<>> \/ chapter_site[p][1][1] = "empty"
                   THEN <<>>
                   ELSE ChainFrom(chapter_site[p][1][2], seen \cup {p}))

\* C14 (as claimed): next-page links are followed from page to page with a
\* visited-set guard: on a chapter whose pages each carry one link, the list
\* returned is the whole chain (page 1 -> page 2 -> page 3 gives all three).
C14_TransitivePages ==
    (pages_pc = "returned" /\ pages_fetch = "ok" /\ SingleLinks)
        => pages_result = ChainFrom(chapter_url, {})

\* ---------------------------------------------------------------------------
\* claims of the Cloudflare wait, checked under SpecWait

\* C15: the wait ends within its budget: whatever each poll meets, at most
\* max_wait / check_interval polls end in a sleep, the time counted never
\* passes the budget, and on the budget the function returns.
C15_WaitBounded ==
    /\ polls <= CLOUDFLARE_MAX_WAIT_TIME \div CLOUDFLARE_CHECK_INTERVAL
    /\ waited_time = polls * CLOUDFLARE_CHECK_INTERVAL
    /\ waited_time <= CLOUDFLARE_MAX_WAIT_TIME
    /\ (cf_pc = "poll" /\ waited_time >= CLOUDFLARE_MAX_WAIT_TIME)
          => ENABLED cloudflare_timeout
    /\ cf_pc \notin {"poll", "idle"} => cf_return = "None"

\* the budget ran out after 40 polls, the last of which raised
C15_Witness ==
    /\ cf_pc = "after_timeout"
    /\ polls = CLOUDFLARE_MAX_WAIT_TIME \div CLOUDFLARE_CHECK_INTERVAL
    /\ cf_page = ErrorPage

\* The page carries a phrase of the known-challenge set in its title or its
\* body, in any letter case
ShowsChallenge(page) ==
    page # ErrorPage /\ (page.title.phrase # "none" \/ page.body.phrase # "none")

\* C16 (as claimed): when the budget runs out with the challenge still
\* shown while a chapter page is fetched, the page counts as not retrieved:
\* _download_chapter_page gives no content, the chapter ends Failed, and the
\* text of the challenge page is never written as the chapter.
C16_TimeoutFailsPage ==
    (cf_pc \in {"page_done_timeout", "chapter_done_timeout"}
       /\ ShowsChallenge(cf_page))
    => /\ page_content = "None"
       /\ cf_pc = "chapter_done_timeout" => chapter_written = "failed"

\* C17 (as claimed): a poll classifies the page as blocked exactly when its
\* title or its body text holds a challenge phrase, whatever the letter case.
C17_PollClassification ==
    cf_page # ErrorPage => (cf_blocked <=> ShowsChallenge(cf_page))

\* ---------------------------------------------------------------------------
\* claims of the metadata store, checked under SpecMeta

\* C18: a load that follows a save for the same menu URL gives as many
\* chapters as were saved, with the same urls and titles in the same order
\* and the ordinals 1..n.
C18_MetadataRoundTrip ==
    (load_result.done /\ saved_args[load_result.url].saved) =>
        LET chs == saved_args[load_result.url].chapters
        IN /\ load_result.outcome = "chapters"
           /\ Len(load_result.chapters) = Len(chs)
           /\ \A i \in DOMAIN chs :
                 load_result.chapters[i] = <<chs[i][1], chs[i][2], i>>

\* two chapters were saved and loaded back with ordinals 1 and 2
C18_Witness ==
    /\ load_result.done
    /\ saved_args[load_result.url].saved
    /\ saved_args[load_result.url].chapters = <<<<"u1", "t1">>, <<"u2", "t2">>>>
    /\ load_result.outcome = "chapters"
    /\ load_result.chapters = <<<<"u1", "t1", 1>>, <<"u2", "t2", 2>>>>

\* C19: a save overwrites: the file of each menu URL holds exactly what the
\* last save for that URL wrote (its chapters and selectors, nothing of an
\* earlier record), whatever was saved for other URLs since, and a load
\* gives that record.
C19_SaveOverwrites ==
    /\ \A u \in MenuUrls :
          saved_args[u].saved =>
              LET rec == store[metadata_filename(u)]
                  chs == saved_args[u].chapters
              IN /\ rec.kind = "object"
                 /\ rec.menu_url = u
                 /\ rec.chapter_xpath = saved_args[u].selector
                 /\ rec.chapter_count = Len(chs)
                 /\ Len(rec.chapters) = Len(chs)
                 /\ \A i \in DOMAIN chs :
                       /\ rec.chapters[i].url = chs[i][1]
                       /\ rec.chapters[i].title = chs[i][2]
    /\ (load_result.done /\ saved_args[load_result.url].saved) =>
          /\ load_result.outcome = "chapters"
          /\ load_result.metadata = store[metadata_filename(load_result.url)]

\* a record of two chapters was replaced by a record of one chapter with
\* another selector, the other URL keeps its record, and the load gives the
\* one chapter
C19_Witness ==
    /\ load_result.done /\ load_result.url = "menu1"
    /\ saved_args["menu1"].saved /\ saved_args["menu1"].over
    /\ saved_args["menu1"].chapters = <<<<"u2", "t2">>>>
    /\ saved_args["menu2"].saved
    /\ saved_args["menu2"].chapters = <<<<"u1", "t1">>, <<"u2", "t2">>>>
    /\ load_result.outcome = "chapters"
    /\ load_result.chapters = <<<<"u2", "t2", 1>>>>

\* The file of the URL is absent or malformed
IsMalformed(url) ==
    LET rec == store[metadata_filename(url)]
    IN \/ rec.kind \in {"absent", "invalid_json", "not_object"}
       \/ \E i \in DOMAIN rec.chapters :
             rec.chapters[i].url = Missing \/ rec.chapters[i].title = Missing

\* C20 (as claimed): a load of an absent or malformed record gives None and
\* does not raise.
C20_MalformedIsAbsent ==
    (load_result.done /\ IsMalformed(load_result.url))
        => load_result.outcome = "None"

\* ---------------------------------------------------------------------------
\* further claims of the download, checked under Spec

\* The steps a chapter task may take within one run
LifecycleStep(from, to) ==
    \/ from = to
    \/ from = "pending" /\ to \in {"waiting", "paginate", "download", "done"}
    \/ from = "waiting" /\ to \in {"paginate", "download"}
    \/ from = "paginate" /\ to \in {"download", "done"}
    \/ from = "download" /\ to = "done"

\* C21: within one run a chapter goes from pending to done at once (its file
\* exists) or through the download to done (written or failed); it enters the
\* download at most once, and once done it stays done with the same result.
C21_ChapterLifecycle ==
    [][rerun' = rerun =>
         \A t \in Tasks :
            /\ LifecycleStep(pc[t], pc'[t])
            /\ pc[t] = "done" => results'[t] = results[t]
            /\ trace'[t].acquires <= 1
            /\ trace'[t].writes <= 1]_vars

\* a chapter ended Failed in the step that started it (its fetch raised at
\* once) before the next chapter was started
C21_WitnessFirstStep ==
    /\ main = "gather"
    /\ Len(chapters) = 2
    /\ pc = <<"done", "pending">>
    /\ results = <<"False", "none">>
    /\ trace[1].acquires = 1 /\ trace[1].releases = 1
    /\ semaphore.value = concurrency

\* a chapter ended Failed after its one download while another chapter is
\* still being downloaded
C21_Witness ==
    \E t, u \in Tasks :
        /\ pc[t] = "done" /\ results[t] = "False"
        /\ trace[t].acquires = 1 /\ trace[t].releases = 1
        /\ pc[u] = "download"

\* ---------------------------------------------------------------------------
\* claims of the construction, checked under SpecConstruct

\* C22 (as claimed): with a concurrency below 1 the error reaches the caller
\* before any chapter task is started: download_novel does not get to run a
\* task, every task stays pending.
C22_InvalidConcurrencyIsError ==
    concurrency < 1 =>
        /\ main # "gather"
        /\ \A t \in Tasks : pc[t] = "pending"

\* ---------------------------------------------------------------------------
\* colliding file names, checked under Spec

\* Two different chapters with one file name that both wrote without failure
Clobbered(t, u) ==
    /\ t # u
    /\ chapters[t] # chapters[u]
    /\ chapter_file(t) = chapter_file(u)
    /\ trace[t].writes = 1 /\ ~trace[t].failure
    /\ trace[u].writes = 1 /\ ~trace[u].failure

\* C25: in one run two chapters whose titles sanitize alike both miss the
\* existence check made before the gate, both write the one path and both
\* end successful; every successful write leaves the file the writer's, so
\* the later write is what remains.
C25_CollidingTitlesClobber ==
    [][/\ \A t \in Tasks :
            (trace'[t].writes = trace[t].writes + 1 /\ results'[t] = "True")
            => /\ files'[chapter_file(t)].present
               /\ files'[chapter_file(t)].title = chapters[t]
       /\ ~rerun => \A t, u \in Tasks : Clobbered(t, u) =>
            /\ ~trace[t].existed /\ ~trace[u].existed
            /\ results[t] = "True" /\ results[u] = "True"
            /\ files[chapter_file(t)].present
            /\ files[chapter_file(t)].title \in {chapters[t], chapters[u]}
            /\ stats.returned => stats.downloaded >= 2
      ]_vars

\* "?" and then "_" were both downloaded into the file "_"; the file is the
\* second chapter's and the statistics count two downloads, no failure
C25_Witness ==
    /\ ~rerun /\ main = "returned"
    /\ chapters = <<<<"?">>, <<"_">>>>
    /\ Clobbered(1, 2)
    /\ stats = [returned |-> TRUE, total |-> 2, downloaded |-> 2,
                skipped |-> 0, failed |-> 0]
    /\ files[<<"_">>].title = <<"_">>
    /\ Cardinality({f \in FileNames : files[f].present}) = 1

\* ---------------------------------------------------------------------------
\* progress, checked under FairSpecGate

\* C28: every call of download_novel returns; once the tasks are gathered
\* every chapter task ends; a task that waits at the gate gets in.
C28_Progress ==
    /\ (gate_main = "start") ~> (gate_main = "returned")
    /\ (gate_main = "gather")
          ~> (\A t \in GateTasks : gate_pc[t] = "done" /\ gate_results[t] # "none")
    /\ \A t \in 1..MaxChapters :
          (t \in GateTasks /\ gate_pc[t] = "waiting")
             ~> (t \in GateTasks /\ gate_pc[t] = "inside")

\* With one slot and two chapters to fetch, the second task queues while
\* the first is inside
C28_Witness ==
    /\ gate_chapters = 2 /\ gate_existing = {}
    /\ gate_pc = <<"inside", "waiting">>
    /\ gate_semaphore = [value |-> 0, waiters |-> <<2>>, woken |-> {}]

\* ... and both have ended and download_novel has returned
C28_WitnessReturned ==
    /\ gate_chapters = 2 /\ gate_existing = {}
    /\ gate_pc = <<"done", "done">>
    /\ gate_results = <<"True", "True">>
    /\ gate_semaphore = [value |-> 1, waiters |-> <<>>, woken |-> {}]
    /\ gate_main = "returned"

\* ---------------------------------------------------------------------------
\* claims of the content post-processing, checked under SpecProcess

\* The characters of q that a filter class keeps, newline-separated
Kept(q, class) ==
    LET hits == SelectSeq(q, LAMBDA ch : ch \in class)
    IN [i \in 1..(IF hits = <<>> THEN 0 ELSE 2 * Len(hits) - 1) |->
          IF i % 2 = 1 THEN hits[(i + 1) \div 2] ELSE "\n"]

RECURSIVE ReplacedBy(_, _, _)
\* The character ch after the pairs from position k on
ReplacedBy(ch, pairs, k) ==
    IF k > Len(pairs) THEN ch
    ELSE ReplacedBy(IF ch = pairs[k][1] THEN pairs[k][2] ELSE ch, pairs, k + 1)

\* C23: the filter comes first and the replacements after it, the pairs
\* first to last, each on the output of the one before; without filter and
\* without pairs the content comes back unchanged.
C23_PostProcessingOrder ==
    pp_result # NotProcessed =>
        LET filtered == IF content_regex = {} THEN pp_content
                        ELSE Kept(pp_content, content_regex)
        IN /\ Len(pp_result) = Len(filtered)
           /\ \A i \in DOMAIN filtered :
                 pp_result[i] = ReplacedBy(filtered[i], string_replacements, 1)
           /\ (content_regex = {} /\ string_replacements = <<>>)
                 => pp_result = pp_content

\* "ab" filtered by [a] is "a"; a -> b and then b -> c make it "c"
C23_Witness ==
    /\ pp_content = <<"a", "b">>
    /\ content_regex = {"a"}
    /\ string_replacements = <<<<"a", "b">>, <<"b", "c">>>>
    /\ pp_result = <<"c">>

\* ---------------------------------------------------------------------------
\* claims of sanitize_filename, checked under SpecSanitize

\* C24: the result is as long as the input, has an underscore wherever the
\* input has one of < > : " / \ | ? * and the input's character elsewhere,
\* holds none of those characters, is the input when the input holds none,
\* and sanitizing it again changes nothing.
C24_SanitizeFilename ==
    /\ sanitized # NotSanitized =>
          /\ Len(sanitized) = Len(filename)
          /\ \A i \in DOMAIN filename :
                /\ filename[i] \in {"<", ">", ":", "\"", "/", "\\", "|", "?", "*"}
                      => sanitized[i] = "_"
                /\ filename[i] \notin {"<", ">", ":", "\"", "/", "\\", "|", "?", "*"}
                      => sanitized[i] = filename[i]
          /\ \A i \in DOMAIN sanitized :
                sanitized[i] \notin {"<", ">", ":", "\"", "/", "\\", "|", "?", "*"}
          /\ (\A i \in DOMAIN filename :
                filename[i] \notin {"<", ">", ":", "\"", "/", "\\", "|", "?", "*"})
                => sanitized = filename
    /\ resanitized # NotSanitized => resanitized = sanitized

\* "a*" became "a_", and stayed "a_" the second time
C24_Witness ==
    /\ filename = <<"a", "*">>
    /\ sanitized = <<"a", "_">>
    /\ resanitized = <<"a", "_">>

\* The empty name stays empty
C24_WitnessEmpty ==
    /\ filename = <<>>
    /\ sanitized = <<>>
    /\ resanitized = <<>>
    /\ sanitized # NotSanitized

\* ---------------------------------------------------------------------------
\* claims of the merge order, checked under SpecSort

\* The ordinal a record carries, 0 when it carries none
Ordinal(r) == IF "index" \in DOMAIN r THEN r.index ELSE 0

\* The records file f belongs to: the first of the sanitized title, the
\* title and the title with underscores for spaces that names a file is f
RecordsOf(f) ==
    {k \in DOMAIN metadata_chapters :
        LET r == metadata_chapters[k]
            title == IF "title" \in DOMAIN r THEN r.title ELSE <<>>
            given == Range(chapter_files)
        IN /\ title # <<>>
           /\ \/ f = sanitize_filename(title)
              \/ sanitize_filename(title) \notin given /\ f = title
              \/ sanitize_filename(title) \notin given /\ title \notin given
                   /\ f = replace_spaces(title)}

\* No two records carry the same ordinal, as in a list the store wrote
DistinctOrdinals ==
    \A j, k \in DOMAIN metadata_chapters :
        j # k => Ordinal(metadata_chapters[j]) # Ordinal(metadata_chapters[k])

\* C26: for records of pairwise different ordinals, the result lists per
\* record that has a file that file, by ascending ordinal (descending when
\* reverse), and after them the files no record has, whatever the order the
\* files were given in.
C26_MergeOrder ==
    (sorted_files # NotSorted /\ DistinctOrdinals) =>
        LET matched == {k \in DOMAIN metadata_chapters :
                           \E f \in Range(chapter_files) : k \in RecordsOf(f)}
            n == Cardinality(matched)
        IN /\ Len(sorted_files) >= n
           /\ \A p \in 1..n : \E k \in matched :
                 /\ k \in RecordsOf(sorted_files[p])
                 /\ Cardinality({j \in matched :
                       IF reverse
                       THEN Ordinal(metadata_chapters[j]) > Ordinal(metadata_chapters[k])
                       ELSE Ordinal(metadata_chapters[j]) < Ordinal(metadata_chapters[k])})
                      = p - 1
           /\ \A p \in (n + 1)..Len(sorted_files) : RecordsOf(sorted_files[p]) = {}
           /\ \A f \in Range(chapter_files) :
                 RecordsOf(f) = {} => \E p \in (n + 1)..Len(sorted_files) :
                                         sorted_files[p] = f

\* The files came as "?", "a", "_"; the records put "_" first and "a"
\* second, and "?" has no record
C26_Witness ==
    /\ chapter_files = <<<<"?">>, <<"a">>, <<"_">>>>
    /\ metadata_chapters = <<[title |-> <<"a">>, index |-> 2],
                             [title |-> <<"_">>, index |-> 1]>>
    /\ ~reverse
    /\ sorted_files = <<<<"_">>, <<"a">>, <<"?">>>>

\* The same with reverse set
C26_WitnessReverse ==
    /\ chapter_files = <<<<"?">>, <<"a">>, <<"_">>>>
    /\ metadata_chapters = <<[title |-> <<"a">>, index |-> 2],
                             [title |-> <<"_">>, index |-> 1]>>
    /\ reverse
    /\ sorted_files = <<<<"a">>, <<"_">>, <<"?">>>>

\* C29 (as claimed): the result holds every given file exactly once.
C29_SortIsPermutation ==
    sorted_files # NotSorted =>
        /\ Len(sorted_files) = Len(chapter_files)
        /\ \A f \in Range(chapter_files) :
              Cardinality({p \in DOMAIN sorted_files : sorted_files[p] = f}) = 1

\* ---------------------------------------------------------------------------
\* claims of the chapter source of download_novel, checked under SpecResume

\* The file held a record of this URL with a non-empty list of whole entries
UsableStored ==
    /\ stored_before.kind = "object"
    /\ stored_before.menu_url = novel_url
    /\ stored_before.chapters # <<>>
    /\ \A i \in DOMAIN stored_before.chapters :
          /\ stored_before.chapters[i].url # Missing
          /\ stored_before.chapters[i].title # Missing

\* C27: with a usable stored list and force_parse false the tasks are
\* created from the stored entries in stored order, get_chapter_links is
\* not called and the metadata file stays as it was; get_chapter_links runs
\* only with force_parse or without a usable stored list, and the file is
\* only rewritten after it ran.
C27_Resumability ==
    /\ (UsableStored /\ ~force_parse) =>
          /\ list_fetches = 0 /\ saves = 0
          /\ store[metadata_filename(novel_url)] = stored_before
          /\ novel_pc \in {"start", "tasks", "gather"}
          /\ novel_pc = "gather" =>
                novel_tasks = [i \in DOMAIN stored_before.chapters |->
                                  <<stored_before.chapters[i].url,
                                    stored_before.chapters[i].title>>]
    /\ list_fetches > 0 => (force_parse \/ ~UsableStored)
    /\ saves <= list_fetches
    /\ saves = 0 => store[metadata_filename(novel_url)] = stored_before

\* Two stored chapters became the two tasks without a fetch or a save,
\* though the site now lists other chapters
C27_Witness ==
    /\ ~force_parse
    /\ stored_before = metadata_record(novel_url,
                          <<<<"u2", "t2">>, <<"u1", "t1">>>>, "x1")
    /\ site_chapters = <<<<"u1", "t1">>>>
    /\ novel_pc = "gather"
    /\ novel_tasks = <<<<"u2", "t2">>, <<"u1", "t1">>>>
    /\ list_fetches = 0 /\ saves = 0

\* With force_parse the usable stored list was set aside, parsed and rewritten
C27_WitnessForce ==
    /\ force_parse /\ UsableStored
    /\ novel_pc = "gather"
    /\ list_fetches = 1 /\ saves = 1
    /\ store[metadata_filename(novel_url)] # stored_before

\* ---------------------------------------------------------------------------
\* claims of the task executor, checked under SpecTask

\* C30 (as claimed): execute_task never raises; a call returns a record,
\* with success = False and an error for every failure; the steps it ran
\* are a prefix of parse, download, replace, merge and only the last of
\* them can have failed.
C30_ExecuteTaskNeverRaises ==
    task_return # NotCalled =>
        /\ task_return.outcome = "returned"
        /\ ~task_return.success => task_return.error # "none"
        /\ Len(task_return.steps) <= 4
        /\ \A k \in DOMAIN task_return.steps :
              /\ task_return.steps[k].step = <<"parse", "download", "replace", "merge">>[k]
              /\ k < Len(task_return.steps) => task_return.steps[k].success
====
